---- MODULE Spec2Model ----
(***************************************************************************)
(* Verification model of the misp-ddos-automation web frontend services:   *)
(*   - MISPApiService (webapp/frontend/src/services/mispApi.ts): the        *)
(*     compiler of DDoSEvent records into MISP events;                      *)
(*   - EventMetricsService (webapp/frontend/src/services/fileProcessing.ts):*)
(*     the TLP filter and the metrics;                                      *)
(*   - FileProcessingService and AIEnhancedFileProcessingService: the       *)
(*     upload pipelines with their validation and quality pre-validation.   *)
(* JavaScript values are modelled as strings, booleans, integers, tuples    *)
(* (arrays) and functions with string domains (objects).                    *)
(***************************************************************************)
EXTENDS Integers, Sequences, FiniteSets, TLC

VARIABLES
    ddosData,      \* the DDoSEvent record handed to createDDoSEvent
    credentials,   \* MISPApiService.credentials (None until setCredentials)
    mispEvent,     \* the event object assembled by the last createDDoSEvent
    posted,        \* the requests received by POST /events/add.json, in order
    response,      \* the MISPEventResponse of the last createDDoSEvent
    events,        \* the MISPEvent array held by the caller of EventMetricsService
    filterCall,    \* last filterEventsByTLP call: its arguments and its result
    metrics,       \* the EventMetrics returned by the last calculateMetrics
    posture,       \* the number returned by the last calculateSecurityPosture
    file,          \* the File handed to the upload service
    service,       \* "github": FileProcessingService, "ai": the AI-enhanced one
    pc,            \* where the upload call stands
    uploadJob,     \* the FileUploadJob under construction, at the end the one returned
    preValidation, \* the AIProcessingResult of preValidateFileWithAI
    rowsExamined,  \* data rows of the file that a step has split and inspected
    githubRequests, \* the requests sent to the GitHub API, in order
    uploadJobs,    \* UploadPage: the uploadJobs state, the jobs shown to the user
    attempts,      \* UploadPage: the attempts counter of the poll loop
    elapsedMs,     \* time since the poll loop was started, in milliseconds
    dashboardLog,  \* CachedDataService: each getDashboardData call, its server
                   \* answer and how its promise settled
    candidate,     \* validation.ts: the File given to validateFile
    validation,    \* validation.ts: the result of validateFile(candidate)
    files,         \* UploadPage: the files state, the queue shown to the user
    isUploading,   \* UploadPage: the isUploading state
    batch,         \* UploadPage: the files array the running handleUpload iterates
    batchPos,      \* UploadPage: how many files of batch the loop has processed
    pollers,       \* UploadPage: the running interval timers, by job id
    dropped,       \* the files onDrop has added to the queue so far
    removed,       \* the files the user has taken out of the queue
    serverEvents,  \* the events of the MISP server, as /events/index answers
    fetched,       \* last MISPApiService.getEvents call: its argument and result
    authStore,     \* useAuthStore: user, token, isAuthenticated, isLoading
    apiClientToken, \* ApiClient.token
    storedToken,   \* localStorage 'token'
    authCalls      \* the login, logout and checkAuth calls awaiting the server

compileVars == <<ddosData, credentials, mispEvent, posted, response>>

metricsVars == <<events, filterCall, metrics, posture>>

uploadVars ==
    <<file, service, pc, uploadJob, preValidation, rowsExamined, githubRequests>>

uploadVarsButPc ==
    <<file, service, uploadJob, preValidation, rowsExamined, githubRequests>>

pageVars == <<uploadJobs, attempts, elapsedMs>>

cacheVars == <<dashboardLog>>

validationVars == <<candidate, validation>>

queueVars == <<files, isUploading, batch, batchPos, pollers, dropped, removed>>

releaseVars == <<serverEvents, fetched>>

authVars == <<authStore, apiClientToken, storedToken, authCalls>>

vars ==
    <<compileVars, metricsVars, uploadVars, pageVars, cacheVars, validationVars,
      queueVars, releaseVars, authVars>>

(***************************************************************************)
(* Bounds of the model.                                                    *)
(***************************************************************************)
MaxList == 2      \* longest attacker / victim / port list of a record
MaxPosts == 2     \* requests the MISP server receives in one behaviour
MaxEvents == 3    \* longest event array given to the TLP filter
MaxMetricEvents == 2   \* longest event array given to calculateMetrics
MaxDate == 2      \* event dates are days 1..MaxDate
MaxPostureEvents == 2  \* most events of a security-posture input
MaxPollTicks == 62     \* ticks of the poll timer that are followed
MaxFetches == 2        \* getDashboardData calls that are followed
MaxSnapshotEvents == 2 \* most events of a persisted snapshot
MaxBatch == 5     \* longest enumerated event array of an uploaded JSON file

(***************************************************************************)
(* JavaScript helpers.                                                     *)
(***************************************************************************)
None == "<none>"              \* null, where a string is expected
Undefined == "<undefined>"    \* undefined, where a string is expected
Null == [null |-> TRUE]       \* null, where an object is expected

Range(s) == {s[i] : i \in 1..Len(s)}

SeqsUpTo(S, n) == UNION {[1..k -> S] : k \in 0..n}

\* String.prototype.includes
Includes(s, sub) ==
    \E i \in 1..(Len(s) - Len(sub) + 1) : SubSeq(s, i, i + Len(sub) - 1) = sub

\* Truthiness of a string-valued (or absent) JavaScript value.
Truthy(v) == v \notin {"", Undefined, None}

\* Property names every plain object inherits from Object.prototype; the
\* inherited value is a function object.
ObjectPrototypeKeys ==
    {"constructor", "toString", "valueOf", "hasOwnProperty", "isPrototypeOf"}

NativeFunction(key) == "function " \o key \o "() { [native code] }"

IsFunctionValue(v) == \E k \in ObjectPrototypeKeys : v = NativeFunction(k)

\* obj[key] on an object literal: own property, else the prototype chain,
\* else undefined.
GetProperty(obj, key) ==
    IF key \in DOMAIN obj THEN obj[key]
    ELSE IF key \in ObjectPrototypeKeys THEN NativeFunction(key)
    ELSE Undefined

(***************************************************************************)
(* Each specification below exercises one service; the state of the other  *)
(* services stays as it is before their first use.                          *)
(***************************************************************************)
CompileIdle ==
    /\ ddosData = Null
    /\ credentials = Null
    /\ mispEvent = Null
    /\ posted = <<>>
    /\ response = Null

MetricsIdle ==
    /\ events = <<>>
    /\ filterCall = Null
    /\ metrics = Null
    /\ posture = Null

UploadIdle ==
    /\ file = Null
    /\ service = None
    /\ pc = "idle"
    /\ uploadJob = Null
    /\ preValidation = Null
    /\ rowsExamined = 0
    /\ githubRequests = <<>>

PageIdle ==
    /\ uploadJobs = <<>>
    /\ attempts = 0
    /\ elapsedMs = 0

CacheIdle == dashboardLog = <<>>

ValidationIdle ==
    /\ candidate = Null
    /\ validation = Null

QueueIdle ==
    /\ files = <<>>
    /\ isUploading = FALSE
    /\ batch = <<>>
    /\ batchPos = 0
    /\ pollers = <<>>
    /\ dropped = {}
    /\ removed = {}

ReleaseIdle ==
    /\ serverEvents = <<>>
    /\ fetched = Null

AuthIdle ==
    /\ authStore = Null
    /\ apiClientToken = None
    /\ storedToken = None
    /\ authCalls = {}

nonCompileVars == <<metricsVars, uploadVars, pageVars, cacheVars, validationVars,
      queueVars, releaseVars, authVars>>

nonMetricsVars == <<compileVars, uploadVars, pageVars, cacheVars, validationVars,
      queueVars, releaseVars, authVars>>

nonUploadVars == <<compileVars, metricsVars, pageVars, cacheVars, validationVars,
      queueVars, releaseVars, authVars>>

nonPageVars == <<compileVars, metricsVars, cacheVars, validationVars,
      queueVars, releaseVars, authVars>>

nonQueueVars ==
    <<compileVars, metricsVars, uploadVars, cacheVars, validationVars,
      releaseVars, authVars>>

nonAuthVars ==
    <<compileVars, metricsVars, uploadVars, pageVars, cacheVars, validationVars,
      queueVars, releaseVars>>

nonCacheVars == <<compileVars, metricsVars, uploadVars, pageVars, validationVars,
      queueVars, releaseVars, authVars>>

nonValidationVars == <<compileVars, metricsVars, uploadVars, pageVars, cacheVars,
      queueVars, releaseVars, authVars>>

(***************************************************************************)
(* MISPApiService: the compiler.                                           *)
(***************************************************************************)
MISP_CONFIG == [baseUrl |-> "https://server1.tailaa85d9.ts.net"]

SeverityMapping ==
    [critical |-> "1", high |-> "1", medium |-> "2", low |-> "3"]

mapSeverityToThreatLevel(severity) ==
    LET v == GetProperty(SeverityMapping, severity)
    IN  IF Truthy(v) THEN v ELSE "4"

AttackerAttribute(ip) ==
    [category |-> "Network activity", type |-> "ip-src", value |-> ip,
     to_ids |-> TRUE, comment |-> "DDoS attack source IP"]

VictimAttribute(ip) ==
    [category |-> "Network activity", type |-> "ip-dst", value |-> ip,
     to_ids |-> TRUE, comment |-> "DDoS attack target IP"]

PortAttribute(port) ==
    [category |-> "Network activity", type |-> "port", value |-> port,
     to_ids |-> FALSE, comment |-> "DDoS attack target port"]

CommentAttribute(description) ==
    [category |-> "Other", type |-> "comment", value |-> description,
     to_ids |-> FALSE]

\* Mutant: the description is never added as a comment attribute.
buildAttributes_NoComment(d) ==
    [i \in 1..Len(d.attacker_ips) |-> AttackerAttribute(d.attacker_ips[i])]
    \o [i \in 1..Len(d.victim_ips) |-> VictimAttribute(d.victim_ips[i])]
    \o [i \in 1..Len(d.attack_ports) |-> PortAttribute(d.attack_ports[i])]

\* Mutant: the victim loop runs before the attacker loop.
buildAttributes_VictimsFirst(d) ==
    [i \in 1..Len(d.victim_ips) |-> VictimAttribute(d.victim_ips[i])]
    \o [i \in 1..Len(d.attacker_ips) |-> AttackerAttribute(d.attacker_ips[i])]
    \o [i \in 1..Len(d.attack_ports) |-> PortAttribute(d.attack_ports[i])]
    \o (IF Truthy(d.description)
        THEN <<CommentAttribute(d.description)>> ELSE <<>>)

buildAttributes(d) ==
    [i \in 1..Len(d.attacker_ips) |-> AttackerAttribute(d.attacker_ips[i])]
    \o [i \in 1..Len(d.victim_ips) |-> VictimAttribute(d.victim_ips[i])]
    \o [i \in 1..Len(d.attack_ports) |-> PortAttribute(d.attack_ports[i])]
    \o (IF Truthy(d.description)
        THEN <<CommentAttribute(d.description)>> ELSE <<>>)

NetworkDoSTag ==
    "misp-galaxy:mitre-attack-pattern=\"Network Denial of Service - T1498\""

AttackTypeTags(attack_type) ==
    CASE attack_type = "direct-flood" -> <<"ddos:type=\"volumetric\"">>
      [] attack_type = "amplification" -> <<"ddos:type=\"reflection\"">>
      [] attack_type = "other" -> <<"ddos:type=\"application-layer\"">>
      [] OTHER -> <<>>

\* Mutant: an event of critical severity is tagged tlp:red.
SeverityTags_CriticalRed(severity) ==
    CASE severity = "critical" -> <<"tlp:red">>
      [] severity = "high" -> <<"tlp:amber">>
      [] severity = "medium" -> <<"tlp:green">>
      [] severity = "low" -> <<"tlp:white">>
      [] OTHER -> <<>>

SeverityTags(severity) ==
    CASE severity \in {"critical", "high"} -> <<"tlp:amber">>
      [] severity = "medium" -> <<"tlp:green">>
      [] severity = "low" -> <<"tlp:white">>
      [] OTHER -> <<>>

\* Mutant: the tags array is shared by all calls instead of being created in
\* each call, so a resubmission carries the tags of the earlier submission too.
buildTags_SharedArray(d) ==
    LET own == <<NetworkDoSTag>> \o AttackTypeTags(d.attack_type)
               \o SeverityTags(d.severity)
    IN  IF posted = <<>> THEN own ELSE own \o own

buildTags(d) ==
    <<NetworkDoSTag>> \o AttackTypeTags(d.attack_type) \o SeverityTags(d.severity)

\* Mutant: an event of critical severity is created as published.
BuildMispEvent_PublishCritical(d) ==
    [info |-> d.title,
     threat_level_id |-> mapSeverityToThreatLevel(d.severity),
     analysis |-> "2",
     distribution |-> "1",
     published |-> (d.severity = "critical"),
     Attribute |-> buildAttributes(d),
     Tag |-> buildTags(d)]

\* The object literal of createDDoSEvent.
BuildMispEvent(d) ==
    [info |-> d.title,
     threat_level_id |-> mapSeverityToThreatLevel(d.severity),
     analysis |-> "2",
     distribution |-> "1",
     published |-> FALSE,
     Attribute |-> buildAttributes(d),
     Tag |-> buildTags(d)]

\* JSON.stringify({ Event: mispEvent }): a property whose value is a function
\* is left out of the serialised object.  threat_level_id is the one property
\* of the event that is read out of an object by a caller-supplied key.
JsonStringifyEvent(e) ==
    LET kept == IF IsFunctionValue(e.threat_level_id)
                THEN DOMAIN e \ {"threat_level_id"} ELSE DOMAIN e
    IN  [k \in kept |-> e[k]]

(***************************************************************************)
(* The DDoSEvent records handed to the compiler.  The declared type allows  *)
(* three attack types and four severities; the values come from parsed      *)
(* files, so other strings (empty, differently cased, unknown words, names  *)
(* of built-in object properties) reach the compiler too.                   *)
(***************************************************************************)
Titles == {"T"}
Descriptions == {"", "D"}
AttackerIps == {"1.2.3.4", "192.0.2.1"}
VictimIps == {"5.6.7.8"}
Ports == {"80"}
AttackTypes == {"direct-flood", "amplification", "other", "unknown"}
Severities ==
    {"critical", "high", "medium", "low", "", "HIGH", "unknown", "constructor"}

DDoSEvents ==
    [title : Titles,
     description : Descriptions,
     attacker_ips : SeqsUpTo(AttackerIps, MaxList),
     victim_ips : SeqsUpTo(VictimIps, MaxList),
     attack_ports : SeqsUpTo(Ports, MaxList),
     attack_type : AttackTypes,
     severity : Severities]

Credentials ==
    {[apiKey |-> "key-1", baseUrl |-> Undefined],
     [apiKey |-> "key-2", baseUrl |-> "https://misp.example"]}

BaseUrl(c) == IF Truthy(c.baseUrl) THEN c.baseUrl ELSE MISP_CONFIG.baseUrl

\* What fetch() can do with the POST: the server stores the event and answers
\* 200, the server answers with an error status, or the request never arrives.
FetchOutcomes == {"ok", "http_error", "network_error"}

InitCompile ==
    /\ ddosData \in DDoSEvents
    /\ credentials = Null
    /\ mispEvent = Null
    /\ posted = <<>>
    /\ response = Null
    /\ MetricsIdle
    /\ UploadIdle
    /\ PageIdle
    /\ QueueIdle
    /\ ReleaseIdle
    /\ AuthIdle
    /\ CacheIdle
    /\ ValidationIdle

setCredentials(c) ==
    /\ credentials' = c
    /\ UNCHANGED <<ddosData, mispEvent, posted, response>>
    /\ UNCHANGED nonCompileVars

\* createDDoSEvent when makeRequest throws for want of credentials.
createDDoSEventNoCredentials ==
    /\ credentials = Null
    /\ mispEvent' = BuildMispEvent(ddosData)
    /\ response' = [event_id |-> "", success |-> FALSE,
                    message |-> "MISP credentials not configured. Please set them in Settings."]
    /\ UNCHANGED <<ddosData, credentials, posted>>
    /\ UNCHANGED nonCompileVars

\* createDDoSEvent with credentials: the event is compiled, serialised and
\* POSTed; the outcome of the fetch decides the response.
createDDoSEventRequest(outcome) ==
    /\ credentials # Null
    /\ Len(posted) < MaxPosts
    /\ LET e == BuildMispEvent(ddosData)
           req == [url |-> BaseUrl(credentials) \o "/events/add.json",
                   apiKey |-> credentials.apiKey,
                   body |-> [Event |-> JsonStringifyEvent(e)]]
       IN  /\ mispEvent' = e
           /\ posted' = IF outcome = "network_error" THEN posted
                         ELSE Append(posted, req)
           /\ response' =
                 CASE outcome = "ok" ->
                        [event_id |-> ToString(Len(posted) + 1), success |-> TRUE,
                         message |-> "DDoS event created successfully",
                         misp_url |-> BaseUrl(credentials) \o "/events/view/"
                                        \o ToString(Len(posted) + 1)]
                   [] outcome = "http_error" ->
                        [event_id |-> "", success |-> FALSE,
                         message |-> "MISP API Error: 403 Forbidden"]
                   [] OTHER ->
                        [event_id |-> "", success |-> FALSE,
                         message |-> "Failed to fetch"]
    /\ UNCHANGED <<ddosData, credentials>>
    /\ UNCHANGED nonCompileVars

NextCompile ==
    \/ \E c \in Credentials : setCredentials(c)
    \/ createDDoSEventNoCredentials
    \/ \E outcome \in FetchOutcomes : createDDoSEventRequest(outcome)

SpecCompile == InitCompile /\ [][NextCompile]_vars

\* The compiler on records that differ in attack type and severity only.
TagRecords ==
    [title : {"T"}, description : {"D"}, attacker_ips : {<<"1.2.3.4">>},
     victim_ips : {<<"5.6.7.8">>}, attack_ports : {<<"80">>},
     attack_type : AttackTypes, severity : Severities]

InitTags ==
    /\ ddosData \in TagRecords
    /\ credentials = Null
    /\ mispEvent = Null
    /\ posted = <<>>
    /\ response = Null
    /\ MetricsIdle
    /\ UploadIdle
    /\ PageIdle
    /\ QueueIdle
    /\ ReleaseIdle
    /\ AuthIdle
    /\ CacheIdle
    /\ ValidationIdle

SpecTags == InitTags /\ [][NextCompile]_vars

(***************************************************************************)
(* Claims about the compiler, checked under SpecCompile.                    *)
(***************************************************************************)
IncidentTypeTag == "information-security-indicators:incident-type=\"ddos\""
EventTypeTag == "misp-event-type:incident"

Compiled == mispEvent # Null

\* C1: every event built by createDDoSEvent carries, whatever the attack_type
\* and severity, a tlp sensitivity tag, the incident-type="ddos" tag, the
\* misp-event-type:incident tag and the Network Denial of Service T1498 tag.
C1_MandatoryTagsPresent ==
    Compiled =>
        /\ \E t \in Range(mispEvent.Tag) : Includes(t, "tlp:")
        /\ IncidentTypeTag \in Range(mispEvent.Tag)
        /\ EventTypeTag \in Range(mispEvent.Tag)
        /\ \E t \in Range(mispEvent.Tag) : Includes(t, "T1498")

ExpectedThreatLevel(severity) ==
    CASE severity \in {"critical", "high"} -> "1"
      [] severity = "medium" -> "2"
      [] severity = "low" -> "3"
      [] OTHER -> "4"

\* C4: the threat level is '1' for critical and high, '2' for medium, '3' for
\* low and '4' for every other severity string.
C4_ThreatLevelTotal ==
    Compiled => mispEvent.threat_level_id = ExpectedThreatLevel(ddosData.severity)

SampleRecord ==
    [title |-> "T", description |-> "D", attacker_ips |-> <<"1.2.3.4">>,
     victim_ips |-> <<"5.6.7.8">>, attack_ports |-> <<"80">>,
     attack_type |-> "direct-flood", severity |-> "high"]

AttributeTypes(e) == [i \in 1..Len(e.Attribute) |-> e.Attribute[i].type]

SampleTagsAndLevel ==
    /\ mispEvent.threat_level_id = "1"
    /\ "ddos:type=\"volumetric\"" \in Range(mispEvent.Tag)
    /\ "tlp:amber" \in Range(mispEvent.Tag)

\* C6 as claimed: for the sample record the event has threat level 1, the
\* volumetric and amber tags, and exactly 3 attributes (ip-src, ip-dst, port).
C6_SampleThreeAttributes ==
    (Compiled /\ ddosData = SampleRecord) =>
        /\ SampleTagsAndLevel
        /\ AttributeTypes(mispEvent) = <<"ip-src", "ip-dst", "port">>

\* C6 as amended: for the sample record the event has threat level 1, the
\* volumetric and amber tags, and exactly 4 attributes: one ip-src, one
\* ip-dst, one port and the comment attribute holding the description "D".
C6_SampleFourAttributes ==
    (Compiled /\ ddosData = SampleRecord) =>
        /\ SampleTagsAndLevel
        /\ AttributeTypes(mispEvent) = <<"ip-src", "ip-dst", "port", "comment">>
        /\ mispEvent.Attribute[1].value = "1.2.3.4"
        /\ mispEvent.Attribute[2].value = "5.6.7.8"
        /\ mispEvent.Attribute[3].value = "80"
        /\ mispEvent.Attribute[4].value = "D"

C6_Witness == Compiled /\ ddosData = SampleRecord

\* C9: the attributes are, in this order, one ip-src (to_ids true) per attacker
\* address in input order, one ip-dst (to_ids true) per victim address in input
\* order, one port (to_ids false) per port in input order, and one comment
\* attribute exactly when the description is non-empty.
C9_AttributeOrder ==
    Compiled =>
        LET A == mispEvent.Attribute
            na == Len(ddosData.attacker_ips)
            nv == Len(ddosData.victim_ips)
            np == Len(ddosData.attack_ports)
            nd == IF ddosData.description # "" THEN 1 ELSE 0
        IN  /\ Len(A) = na + nv + np + nd
            /\ \A i \in 1..na :
                  /\ A[i].type = "ip-src"
                  /\ A[i].value = ddosData.attacker_ips[i]
                  /\ A[i].to_ids = TRUE
            /\ \A i \in 1..nv :
                  /\ A[na + i].type = "ip-dst"
                  /\ A[na + i].value = ddosData.victim_ips[i]
                  /\ A[na + i].to_ids = TRUE
            /\ \A i \in 1..np :
                  /\ A[na + nv + i].type = "port"
                  /\ A[na + nv + i].value = ddosData.attack_ports[i]
                  /\ A[na + nv + i].to_ids = FALSE
            /\ nd = 1 =>
                  /\ A[Len(A)].type = "comment"
                  /\ A[Len(A)].value = ddosData.description
                  /\ A[Len(A)].to_ids = FALSE

\* C9 witness: a compiled record with two different attackers, a victim, a
\* port and a description.
C9_Witness ==
    /\ Compiled
    /\ Len(ddosData.attacker_ips) = 2
    /\ ddosData.attacker_ips[1] # ddosData.attacker_ips[2]
    /\ Len(ddosData.victim_ips) >= 1
    /\ Len(ddosData.attack_ports) >= 1
    /\ ddosData.description # ""
    /\ Len(mispEvent.Attribute) >= 5

ExpectedTypeMarker(attack_type) ==
    CASE attack_type = "direct-flood" -> <<"ddos:type=\"volumetric\"">>
      [] attack_type = "amplification" -> <<"ddos:type=\"reflection\"">>
      [] attack_type = "other" -> <<"ddos:type=\"application-layer\"">>
      [] OTHER -> <<>>

ExpectedSeverityTag(severity) ==
    CASE severity \in {"critical", "high"} -> <<"tlp:amber">>
      [] severity = "medium" -> <<"tlp:green">>
      [] severity = "low" -> <<"tlp:white">>
      [] OTHER -> <<>>

\* C10: the tags are, in this order, the mandatory global set (sensitivity,
\* incident-type, event-type) and the Network-DoS technique marker, then the
\* attack-type marker, then the severity-derived tag; unknown attack types and
\* severities add nothing.
C10_TagOrder ==
    Compiled =>
        LET T == mispEvent.Tag
        IN  /\ Len(T) >= 4
            /\ Includes(T[1], "tlp:")
            /\ T[2] = IncidentTypeTag
            /\ T[3] = EventTypeTag
            /\ T[4] = NetworkDoSTag
            /\ SubSeq(T, 5, Len(T)) =
                  ExpectedTypeMarker(ddosData.attack_type)
                  \o ExpectedSeverityTag(ddosData.severity)

(***************************************************************************)
(* EventMetricsService: the TLP filter and the metrics.                     *)
(***************************************************************************)
UpperCaseLetters == "ABCDEFGHIJKLMNOPQRSTUVWXYZ"
LowerCaseLetters == "abcdefghijklmnopqrstuvwxyz"

LowerChar(c) ==
    IF \E i \in 1..Len(UpperCaseLetters) : SubSeq(UpperCaseLetters, i, i) = c
    THEN LET i == CHOOSE j \in 1..Len(UpperCaseLetters) :
                      SubSeq(UpperCaseLetters, j, j) = c
         IN  SubSeq(LowerCaseLetters, i, i)
    ELSE c

\* String.prototype.toLowerCase
RECURSIVE toLowerCase(_)
toLowerCase(s) ==
    IF Len(s) = 0 THEN s
    ELSE LowerChar(SubSeq(s, 1, 1)) \o toLowerCase(SubSeq(s, 2, Len(s)))

\* Array.prototype.filter
Filter(arr, Keep(_)) ==
    LET Kept[n \in 0..Len(arr)] ==
            IF n = 0 THEN <<>>
            ELSE IF Keep(arr[n]) THEN Append(Kept[n - 1], arr[n])
            ELSE Kept[n - 1]
    IN  Kept[Len(arr)]

\* Array.prototype.some over the tags of an event
SomeTag(event, Test(_)) == \E i \in 1..Len(event.tags) : Test(event.tags[i])

\* Mutant: the tag name is compared as written, without toLowerCase.
filterEventsByTLP_CaseSensitive(evts, excludeTlpRed) ==
    IF ~excludeTlpRed THEN evts
    ELSE LET IsRed(tag) == Includes(tag.name, "tlp:red")
             Keep(event) == ~SomeTag(event, IsRed)
         IN  Filter(evts, Keep)

filterEventsByTLP(evts, excludeTlpRed) ==
    IF ~excludeTlpRed THEN evts
    ELSE LET IsRed(tag) == Includes(toLowerCase(tag.name), "tlp:red")
             Keep(event) == ~SomeTag(event, IsRed)
         IN  Filter(evts, Keep)

\* Array.prototype.sort with (a, b) => getTime(b.date) - getTime(a.date): a
\* stable sort, latest date first.
RECURSIVE InsertByDateDesc(_, _)
InsertByDateDesc(sorted, e) ==
    IF sorted = <<>> THEN <<e>>
    ELSE IF Head(sorted).date >= e.date
         THEN <<Head(sorted)>> \o InsertByDateDesc(Tail(sorted), e)
         ELSE <<e>> \o sorted

RECURSIVE SortByDateDesc(_)
SortByDateDesc(arr) ==
    IF arr = <<>> THEN <<>>
    ELSE InsertByDateDesc(SortByDateDesc(SubSeq(arr, 1, Len(arr) - 1)),
                          arr[Len(arr)])

RecentLimit == 10

Slice(arr, n) == SubSeq(arr, 1, IF Len(arr) < n THEN Len(arr) ELSE n)

CountWhere(arr, Test(_)) == Cardinality({i \in 1..Len(arr) : Test(arr[i])})

eventsByThreatLevel(evts) ==
    [high |-> CountWhere(evts, LAMBDA e : e.threat_level = "1"),
     medium |-> CountWhere(evts, LAMBDA e : e.threat_level = "2"),
     low |-> CountWhere(evts, LAMBDA e : e.threat_level = "3"),
     undefined |-> CountWhere(evts, LAMBDA e : e.threat_level = "4")]

UpperChar(c) ==
    IF \E i \in 1..Len(LowerCaseLetters) : SubSeq(LowerCaseLetters, i, i) = c
    THEN LET i == CHOOSE j \in 1..Len(LowerCaseLetters) :
                      SubSeq(LowerCaseLetters, j, j) = c
         IN  SubSeq(UpperCaseLetters, i, i)
    ELSE c

\* String.prototype.toUpperCase
RECURSIVE toUpperCase(_)
toUpperCase(s) ==
    IF Len(s) = 0 THEN s
    ELSE UpperChar(SubSeq(s, 1, 1)) \o toUpperCase(SubSeq(s, 2, Len(s)))

\* String.prototype.replace with a string pattern: the first occurrence only.
ReplaceFirst(s, pattern, replacement) ==
    IF ~Includes(s, pattern) THEN s
    ELSE LET at == CHOOSE i \in 1..(Len(s) - Len(pattern) + 1) :
                      /\ SubSeq(s, i, i + Len(pattern) - 1) = pattern
                      /\ \A j \in 1..(i - 1) :
                            SubSeq(s, j, j + Len(pattern) - 1) # pattern
         IN  SubSeq(s, 1, at - 1) \o replacement
             \o SubSeq(s, at + Len(pattern), Len(s))

\* The keys one event adds to tlpCounts, in order: one for each tag whose
\* lower-cased name includes 'tlp:', or 'undefined' when there is none.
TlpKeysOfEvent(event) ==
    LET names == [i \in 1..Len(event.tags) |-> toLowerCase(event.tags[i].name)]
        tlpNames == Filter(names, LAMBDA n : Includes(n, "tlp:"))
    IN  IF tlpNames = <<>> THEN <<"undefined">>
        ELSE [i \in 1..Len(tlpNames) |-> ReplaceFirst(tlpNames[i], "tlp:", "")]

TlpKeys(evts) ==
    LET keys[n \in 0..Len(evts)] ==
            IF n = 0 THEN <<>> ELSE keys[n - 1] \o TlpKeysOfEvent(evts[n])
    IN  keys[Len(evts)]

tlpColors ==
    [red |-> "#f44336", amber |-> "#ff9800", green |-> "#4caf50",
     white |-> "#e0e0e0", undefined |-> "#9e9e9e"]

\* calculateTlpDistribution: Object.entries lists the keys in the order of
\* their first insertion.
calculateTlpDistribution(evts) ==
    LET keys == TlpKeys(evts)
        first == Filter([i \in 1..Len(keys) |-> i],
                        LAMBDA i : \A j \in 1..(i - 1) : keys[j] # keys[i])
    IN  [k \in 1..Len(first) |->
            LET level == keys[first[k]]
            IN  [level |-> toUpperCase(level),
                 count |-> Cardinality({i \in 1..Len(keys) : keys[i] = level}),
                 color |-> IF Truthy(GetProperty(tlpColors, level))
                           THEN GetProperty(tlpColors, level) ELSE "#9e9e9e"]]

\* String.prototype.replace(/"/g, ''): every double quote is removed.
RECURSIVE RemoveQuotes(_)
RemoveQuotes(s) ==
    IF Len(s) = 0 THEN s
    ELSE (IF SubSeq(s, 1, 1) = "\"" THEN "" ELSE SubSeq(s, 1, 1))
         \o RemoveQuotes(SubSeq(s, 2, Len(s)))

\* extractAttackType; None stands for null.
extractAttackType(attackPattern) ==
    IF Includes(attackPattern, "T1498.001") THEN "Direct Flood"
    ELSE IF Includes(attackPattern, "T1498.002") THEN "Amplification"
    ELSE IF Includes(attackPattern, "T1498") THEN "Network DoS"
    ELSE None

\* The keys one tag adds to typeCounts: at most one.
TypeKeysOfTag(tag) ==
    IF Includes(tag.name, "ddos:type=")
    THEN <<RemoveQuotes(ReplaceFirst(tag.name, "ddos:type=", ""))>>
    ELSE IF Includes(tag.name, "mitre-attack-pattern")
              /\ Truthy(extractAttackType(tag.name))
         THEN <<extractAttackType(tag.name)>>
         ELSE <<>>

\* The keys the events add to typeCounts, in the order of the two forEach
\* loops.
TypeKeys(evts) ==
    LET ofEvent(event) ==
            LET keys[n \in 0..Len(event.tags)] ==
                    IF n = 0 THEN <<>>
                    ELSE keys[n - 1] \o TypeKeysOfTag(event.tags[n])
            IN  keys[Len(event.tags)]
        all[n \in 0..Len(evts)] ==
            IF n = 0 THEN <<>> ELSE all[n - 1] \o ofEvent(evts[n])
    IN  all[Len(evts)]

\* Array.prototype.sort with (a, b) => b.count - a.count: a stable sort,
\* highest count first.
RECURSIVE InsertByCountDesc(_, _)
InsertByCountDesc(sorted, e) ==
    IF sorted = <<>> THEN <<e>>
    ELSE IF Head(sorted).count >= e.count
         THEN <<Head(sorted)>> \o InsertByCountDesc(Tail(sorted), e)
         ELSE <<e>> \o sorted

RECURSIVE SortByCountDesc(_)
SortByCountDesc(arr) ==
    IF arr = <<>> THEN <<>>
    ELSE InsertByCountDesc(SortByCountDesc(SubSeq(arr, 1, Len(arr) - 1)),
                           arr[Len(arr)])

\* Object.entries(typeCounts): the keys in the order of their first insertion.
TypeEntries(evts) ==
    LET keys == TypeKeys(evts)
        first == Filter([i \in 1..Len(keys) |-> i],
                        LAMBDA i : \A j \in 1..(i - 1) : keys[j] # keys[i])
    IN  [k \in 1..Len(first) |->
            [type |-> keys[first[k]],
             count |-> Cardinality({i \in 1..Len(keys) : keys[i] = keys[first[k]]})]]

\* Mutant: the entries are returned in insertion order, without the sort.
calculateAttackTypes_InsertionOrder(evts) == TypeEntries(evts)

calculateAttackTypes(evts) == SortByCountDesc(TypeEntries(evts))

\* The EventMetrics object of calculateMetrics, computed from the array as it
\* is when the call starts; recentEvents is taken from the array sorted in
\* place.
EventMetrics(evts) ==
    [totalEvents |-> Len(evts),
     eventsByThreatLevel |-> eventsByThreatLevel(evts),
     eventsByType |-> calculateAttackTypes(evts),
     tlpDistribution |-> calculateTlpDistribution(evts),
     publishedVsUnpublished |->
         [published |-> CountWhere(evts, LAMBDA e : e.published),
          unpublished |-> CountWhere(evts, LAMBDA e : ~e.published)],
     recentEvents |-> Slice(SortByDateDesc(evts), RecentLimit)]

\* The tag lists of the events given to the filter.
TagLists ==
    {<<>>,
     <<"tlp:red">>,
     <<"TLP:RED">>,
     <<"tlp:amber">>,
     <<"tlp-red">>,
     <<"tlp:green", "Tlp:Red">>,
     <<NetworkDoSTag, "tlp:white">>,
     <<"workflow:tlp:red-review">>}

Tags(names) == [i \in 1..Len(names) |-> [name |-> names[i], colour |-> "#cccccc"]]

\* threat_level is copied from the server's threat_level_id by
\* transformMISPEvent without a check: besides '1'..'4' the array can hold an
\* event whose threat_level_id was absent.
ThreatLevels == {"1", "2", "3", "4", Undefined}

MISPEventShapes(tagLists, levels, publishedValues, dates) ==
    [tags : {Tags(n) : n \in tagLists},
     threat_level : levels,
     published : publishedValues,
     date : dates]

\* An array of events; the id of an event is its position in the server's
\* answer.
WithIds(shapes) ==
    [i \in 1..Len(shapes) |->
        [id |-> ToString(i), tags |-> shapes[i].tags,
         threat_level |-> shapes[i].threat_level,
         published |-> shapes[i].published, date |-> shapes[i].date]]

InitFilter ==
    /\ CompileIdle
    /\ UploadIdle
    /\ PageIdle
    /\ QueueIdle
    /\ ReleaseIdle
    /\ AuthIdle
    /\ CacheIdle
    /\ ValidationIdle
    /\ \E shapes \in SeqsUpTo(MISPEventShapes(TagLists, {"1"}, {FALSE}, {1}),
                               MaxEvents) :
           events = WithIds(shapes)
    /\ filterCall = Null
    /\ metrics = Null
    /\ posture = Null

InitMetrics ==
    /\ CompileIdle
    /\ UploadIdle
    /\ PageIdle
    /\ QueueIdle
    /\ ReleaseIdle
    /\ AuthIdle
    /\ CacheIdle
    /\ ValidationIdle
    /\ \E shapes \in SeqsUpTo(MISPEventShapes({<<>>}, ThreatLevels, BOOLEAN,
                                               1..MaxDate),
                               MaxMetricEvents) :
           events = WithIds(shapes)
    /\ filterCall = Null
    /\ metrics = Null
    /\ posture = Null

FilterEventsByTLP(excludeTlpRed) ==
    /\ filterCall' = [events |-> events, excludeTlpRed |-> excludeTlpRed,
                      result |-> filterEventsByTLP(events, excludeTlpRed)]
    /\ UNCHANGED <<events, metrics, posture>>
    /\ UNCHANGED nonMetricsVars

\* calculateMetrics(events): returns the metrics and leaves the caller's array
\* sorted, since Array.prototype.sort sorts in place.
CalculateMetrics ==
    /\ metrics' = EventMetrics(events)
    /\ events' = SortByDateDesc(events)
    /\ UNCHANGED <<filterCall, posture>>
    /\ UNCHANGED nonMetricsVars

NextMetrics ==
    \/ \E excludeTlpRed \in BOOLEAN : FilterEventsByTLP(excludeTlpRed)
    \/ CalculateMetrics

SpecFilter == InitFilter /\ [][NextMetrics]_vars

SpecMetrics == InitMetrics /\ [][NextMetrics]_vars

(***************************************************************************)
(* calculateSecurityPosture.  The score is a fraction: scoreTimesTotal      *)
(* divided by totalEvents; with totalEvents = 0 the divisions of the code   *)
(* are divisions by zero.                                                   *)
(***************************************************************************)
HighThreatWeight == 30
UnpublishedWeight == 20
TlpRedWeight == 25

\* The count of the first tlpDistribution entry of level 'RED', 0 if none.
TlpRedCount(m) ==
    LET red == {i \in 1..Len(m.tlpDistribution) : m.tlpDistribution[i].level = "RED"}
    IN  IF red = {} THEN 0
        ELSE m.tlpDistribution[CHOOSE i \in red : \A j \in red : i <= j].count

NaN == [isNaN |-> TRUE, scoreTimesTotal |-> 0, totalEvents |-> 0]

calculateSecurityPosture(m) ==
    LET total == m.totalEvents
        high == m.eventsByThreatLevel.high
        unpublished == m.publishedVsUnpublished.unpublished
        red == TlpRedCount(m)
        raw == 100 * total - HighThreatWeight * high
               - UnpublishedWeight * unpublished - TlpRedWeight * red
    IN  IF total = 0
        THEN \* 0 / 0 is NaN and stays NaN through Math.min and Math.max;
             \* n / 0 with n > 0 is Infinity, and 100 - Infinity is clamped to 0
             (IF high = 0 \/ unpublished = 0 THEN NaN
              ELSE [isNaN |-> FALSE, scoreTimesTotal |-> 0, totalEvents |-> 1])
        ELSE [isNaN |-> FALSE,
              \* Math.max(0, Math.min(100, score))
              scoreTimesTotal |-> IF raw < 0 THEN 0
                                  ELSE IF raw > 100 * total THEN 100 * total
                                  ELSE raw,
              totalEvents |-> total]

\* Events for the posture: dated alike, with and without the RED marker.
PostureTagLists == {<<>>, <<"tlp:green">>, <<"TLP:RED">>, <<"tlp:red", "Tlp:Red">>}

InitPosture ==
    /\ CompileIdle
    /\ UploadIdle
    /\ PageIdle
    /\ QueueIdle
    /\ ReleaseIdle
    /\ AuthIdle
    /\ CacheIdle
    /\ ValidationIdle
    /\ \E shapes \in SeqsUpTo(MISPEventShapes(PostureTagLists, {"1", "3"}, BOOLEAN,
                                               {1}),
                               MaxPostureEvents) :
           events = WithIds(shapes)
    /\ filterCall = Null
    /\ metrics = Null
    /\ posture = Null

CalculateSecurityPosture ==
    /\ metrics # Null
    /\ posture' = calculateSecurityPosture(metrics)
    /\ UNCHANGED <<events, filterCall, metrics>>
    /\ UNCHANGED nonMetricsVars

NextPosture ==
    \/ CalculateMetrics
    \/ CalculateSecurityPosture

SpecPosture == InitPosture /\ [][NextPosture]_vars

(***************************************************************************)
(* calculateAttackTypes is exercised on events tagged with type markers     *)
(* and ATT&CK technique tags.                                               *)
(***************************************************************************)
MaxTypeEvents == 2

DirectFloodTag == "misp-galaxy:mitre-attack-pattern=\"Direct Network Flood - T1498.001\""

AmplificationTag ==
    "misp-galaxy:mitre-attack-pattern=\"Reflection Amplification - T1498.002\""

EndpointDoSTag ==
    "misp-galaxy:mitre-attack-pattern=\"Endpoint Denial of Service - T1499\""

TypeTagLists ==
    {<<>>,
     <<"tlp:green">>,
     <<"ddos:type=\"volumetric\"">>,
     <<"ddos:type=reflection">>,
     <<NetworkDoSTag>>,
     <<NetworkDoSTag, "ddos:type=\"volumetric\"", "tlp:amber">>,
     <<DirectFloodTag>>,
     <<AmplificationTag, AmplificationTag>>,
     <<EndpointDoSTag>>}

InitTypes ==
    /\ CompileIdle
    /\ UploadIdle
    /\ PageIdle
    /\ QueueIdle
    /\ ReleaseIdle
    /\ AuthIdle
    /\ CacheIdle
    /\ ValidationIdle
    /\ \E shapes \in SeqsUpTo(MISPEventShapes(TypeTagLists, {"2"}, {TRUE}, {1}),
                               MaxTypeEvents) :
           events = WithIds(shapes)
    /\ filterCall = Null
    /\ metrics = Null
    /\ posture = Null

SpecTypes == InitTypes /\ [][NextPosture]_vars

(***************************************************************************)
(* Claims about the TLP filter and the metrics.                             *)
(***************************************************************************)
SameLetter(c1, c2) ==
    \/ c1 = c2
    \/ \E i \in 1..Len(UpperCaseLetters) :
          {c1, c2} = {SubSeq(UpperCaseLetters, i, i), SubSeq(LowerCaseLetters, i, i)}

\* The name holds the marker at some position, letter case disregarded.
HoldsMarker(name, marker) ==
    \E at \in 0..(Len(name) - Len(marker)) :
        \A k \in 1..Len(marker) :
            SameLetter(SubSeq(name, at + k, at + k), SubSeq(marker, k, k))

MaximallySensitive(event) ==
    \E i \in 1..Len(event.tags) : HoldsMarker(event.tags[i].name, "tlp:red")

Position(arr, e) == CHOOSE k \in 1..Len(arr) : arr[k] = e

\* C2: filterEventsByTLP(events, true) returns exactly the input events none
\* of whose tag names contains 'tlp:red' in any letter case: every event with
\* such a tag is removed, every other event is kept, once, in input order.
C2_FilterExact ==
    (filterCall # Null /\ filterCall.excludeTlpRed) =>
        LET input == filterCall.events
            result == filterCall.result
        IN  /\ \A i \in 1..Len(result) :
                  result[i] \in Range(input) /\ ~MaximallySensitive(result[i])
            /\ \A i \in 1..Len(input) :
                  ~MaximallySensitive(input[i]) => input[i] \in Range(result)
            /\ Len(result) =
                  Cardinality({i \in 1..Len(input) : ~MaximallySensitive(input[i])})
            /\ \A i, j \in 1..Len(result) :
                  i < j => Position(input, result[i]) < Position(input, result[j])

\* C2 witness: a filtered array of three events in which an upper-case
\* TLP:RED event is removed and a tagless event and another event are kept.
C2_Witness ==
    /\ filterCall # Null
    /\ filterCall.excludeTlpRed
    /\ Len(filterCall.events) = 3
    /\ \E i \in 1..3 : filterCall.events[i].tags = Tags(<<"TLP:RED">>)
    /\ \E i \in 1..3 : filterCall.events[i].tags = <<>>
    /\ Len(filterCall.result) = 2

\* C5: the four threat-level buckets of calculateMetrics sum to totalEvents.
C5_BucketsSumToTotal ==
    metrics # Null =>
        metrics.eventsByThreatLevel.high + metrics.eventsByThreatLevel.medium
        + metrics.eventsByThreatLevel.low + metrics.eventsByThreatLevel.undefined
        = metrics.totalEvents

(***************************************************************************)
(* String helpers of the upload services.                                   *)
(***************************************************************************)
CharAt(s, i) == SubSeq(s, i, i)

EndsWith(s, suffix) ==
    Len(s) >= Len(suffix) /\ SubSeq(s, Len(s) - Len(suffix) + 1, Len(s)) = suffix

IsWhitespace(c) == c \in {" ", "\t", "\r", "\n"}

\* String.prototype.trim
RECURSIVE Trim(_)
Trim(s) ==
    IF Len(s) = 0 THEN s
    ELSE IF IsWhitespace(CharAt(s, 1)) THEN Trim(SubSeq(s, 2, Len(s)))
    ELSE IF IsWhitespace(CharAt(s, Len(s))) THEN Trim(SubSeq(s, 1, Len(s) - 1))
    ELSE s

\* String.prototype.split with a one-character separator
RECURSIVE Split(_, _)
Split(s, sep) ==
    IF \A i \in 1..Len(s) : CharAt(s, i) # sep THEN <<s>>
    ELSE LET i == CHOOSE j \in 1..Len(s) :
                      /\ CharAt(s, j) = sep
                      /\ \A k \in 1..(j - 1) : CharAt(s, k) # sep
         IN  <<SubSeq(s, 1, i - 1)>> \o Split(SubSeq(s, i + 1, Len(s)), sep)

\* Array.prototype.join
RECURSIVE Join(_, _)
Join(arr, sep) ==
    IF arr = <<>> THEN ""
    ELSE IF Len(arr) = 1 THEN arr[1]
    ELSE arr[1] \o sep \o Join(Tail(arr), sep)

\* A one-character string of the class, as [0-5] or [1-9] in a pattern.
InClass(c, class) == Len(c) = 1 /\ Includes(class, c)

Digit(c) == InClass(c, "0123456789")

\* (?:25[0-5]|2[0-4][0-9]|[01]?[0-9][0-9]?)
MatchesOctet(o) ==
    \/ Len(o) = 3 /\ SubSeq(o, 1, 2) = "25" /\ InClass(CharAt(o, 3), "012345")
    \/ Len(o) = 3 /\ CharAt(o, 1) = "2" /\ InClass(CharAt(o, 2), "01234")
         /\ Digit(CharAt(o, 3))
    \/ Len(o) = 3 /\ InClass(CharAt(o, 1), "01") /\ Digit(CharAt(o, 2))
         /\ Digit(CharAt(o, 3))
    \/ Len(o) = 2 /\ Digit(CharAt(o, 1)) /\ Digit(CharAt(o, 2))
    \/ Len(o) = 1 /\ Digit(CharAt(o, 1))

\* ipPattern.test(ip): ^(?:octet\.){3}octet$
MatchesIpPattern(ip) ==
    LET parts == Split(ip, ".")
    IN  Len(parts) = 4 /\ \A i \in 1..4 : MatchesOctet(parts[i])

AllDigits(s, from, to) == \A i \in from..to : Digit(CharAt(s, i))

\* portPattern.test(port): ^(?:[1-9][0-9]{0,3}|[1-5][0-9]{4}|6[0-4][0-9]{3}
\*                          |65[0-4][0-9]{2}|655[0-2][0-9]|6553[0-5])$
MatchesPortPattern(p) ==
    \/ Len(p) \in 1..4 /\ InClass(CharAt(p, 1), "123456789")
         /\ AllDigits(p, 2, Len(p))
    \/ Len(p) = 5 /\ InClass(CharAt(p, 1), "12345") /\ AllDigits(p, 2, 5)
    \/ Len(p) = 5 /\ CharAt(p, 1) = "6" /\ InClass(CharAt(p, 2), "01234")
         /\ AllDigits(p, 3, 5)
    \/ Len(p) = 5 /\ SubSeq(p, 1, 2) = "65" /\ InClass(CharAt(p, 3), "01234")
         /\ AllDigits(p, 4, 5)
    \/ Len(p) = 5 /\ SubSeq(p, 1, 3) = "655" /\ InClass(CharAt(p, 4), "012")
         /\ Digit(CharAt(p, 5))
    \/ Len(p) = 5 /\ SubSeq(p, 1, 4) = "6553" /\ InClass(CharAt(p, 5), "012345")

\* content.split('\n').filter(line => line.trim()), on the lines of the text
NonBlankLines(lines) == Filter(lines, LAMBDA line : Trim(line) # "")

\* cell?.split(';').map(v => v.trim()) || [] for the cell at a 1-based index
CellValues(row, index) ==
    IF index > Len(row) THEN <<>>
    ELSE LET parts == Split(row[index], ";")
         IN  [i \in 1..Len(parts) |-> Trim(parts[i])]

(***************************************************************************)
(* FileProcessingService ("github") and AIEnhancedFileProcessingService     *)
(* ("ai"): validation of a File.  A File is its name, MIME type, size in    *)
(* bytes and content; the content is given by the lines of its text and by  *)
(* what JSON.parse makes of the text.  An operator that models a function   *)
(* that throws returns the message of the Error, or NoError.                *)
(***************************************************************************)
NoError == "<no error>"

MB == 1024 * 1024

AllowedTypes == {"text/csv", "application/json", "text/plain"}

AllowedExtensions == {".csv", ".json"}

MaxFileSize(svc) == IF svc = "github" THEN 50 * MB ELSE 100 * MB

InvalidTypeMessage(svc) ==
    IF svc = "github"
    THEN "Invalid file type. Only CSV and JSON files are allowed."
    ELSE IF svc = "local"
    THEN "Invalid file type. Only CSV and JSON files are supported."
    ELSE "Invalid file type. Only CSV and JSON files are supported for AI processing."

FileTooLargeMessage(svc) ==
    IF svc = "github" THEN "File size exceeds 50MB limit."
    ELSE IF svc = "local" THEN "File size exceeds 100MB limit."
    ELSE "File size exceeds 100MB limit for AI processing."

RequiredColumns ==
    <<"title", "description", "attacker_ips", "victim_ips", "attack_type", "severity">>

\* Mutant: attacker_ips is not among the required columns.
validateCSVContent_AttackerOptional(svc, lines) ==
    LET nonBlank == NonBlankLines(lines)
        header == toLowerCase(nonBlank[1])
        required == <<"title", "description", "victim_ips", "attack_type", "severity">>
        missingColumns == Filter(required, LAMBDA col : ~Includes(header, col))
    IN  IF Len(nonBlank) < 2
        THEN "CSV file must contain at least a header and one data row."
        ELSE IF Len(missingColumns) > 0
        THEN "CSV missing required columns: " \o Join(missingColumns, ", ")
        ELSE NoError

validateCSVContent(svc, lines) ==
    LET nonBlank == NonBlankLines(lines)
        header == toLowerCase(nonBlank[1])
        missingColumns == Filter(RequiredColumns, LAMBDA col : ~Includes(header, col))
    IN  IF Len(nonBlank) < 2
        THEN "CSV file must contain at least a header and one data row."
        ELSE IF Len(missingColumns) > 0
        THEN "CSV missing required columns: " \o Join(missingColumns, ", ")
             \o (IF svc = "ai"
                 THEN ". AI can help with data mapping if column names are similar."
                 ELSE "")
        ELSE NoError

\* Array.isArray(data) ? data : [data]; the value of a parsed single object
\* is held as the one-element sequence of that object.
EventsOf(json) == IF json.isArray THEN json.value ELSE <<json.value[1]>>

MissingFields(event) == Filter(RequiredColumns, LAMBDA field : field \notin DOMAIN event)

FirstEventsChecked == 5

MissingPerEventAllowed == 2

LocalMissingAllowed == 3

Min(a, b) == IF a < b THEN a ELSE b

Max(a, b) == IF a > b THEN a ELSE b

RECURSIVE SumTo(_, _)
SumTo(f, n) == IF n = 0 THEN 0 ELSE f[n] + SumTo(f, n - 1)

validateJSONContent(svc, json) ==
    IF json.syntaxError
    THEN (IF svc = "ai"
          THEN "Invalid JSON format. AI cannot process malformed JSON files."
          ELSE "Invalid JSON format.")
    ELSE
    LET evts == EventsOf(json)
    IN  IF Len(evts) = 0 THEN "JSON file must contain at least one event."
        ELSE IF svc = "github"
        THEN LET bad == {i \in 1..Len(evts) : Len(MissingFields(evts[i])) > 0}
             IN  IF bad = {} THEN NoError
                 ELSE LET i == CHOOSE j \in bad : \A k \in bad : j <= k
                      IN  "Event " \o ToString(i) \o " missing required fields: "
                          \o Join(MissingFields(evts[i]), ", ")
        ELSE IF svc = "local"
        THEN LET checked == Min(Len(evts), FirstEventsChecked)
                 bad == {i \in 1..checked :
                            Len(MissingFields(evts[i])) > LocalMissingAllowed}
             IN  IF bad = {} THEN NoError
                 ELSE LET i == CHOOSE j \in bad : \A k \in bad : j <= k
                      IN  "Event " \o ToString(i)
                          \o " missing too many required fields: "
                          \o Join(MissingFields(evts[i]), ", ")
        ELSE LET checked == Min(Len(evts), FirstEventsChecked)
                 missing == [i \in 1..checked |-> Len(MissingFields(evts[i]))]
                 totalMissingFields == SumTo(missing, checked)
             IN  IF totalMissingFields > Len(evts) * MissingPerEventAllowed
                 THEN "JSON events have too many missing required fields. Please review the data structure."
                 ELSE NoError

\* Mutant: the size of the file is not checked.
validateFile_NoSizeCheck(svc, f) ==
    LET hasValidType == f.type \in AllowedTypes
        lowerName == toLowerCase(f.name)
        hasValidExtension == \E ext \in AllowedExtensions : EndsWith(lowerName, ext)
    IN  IF ~hasValidType /\ ~hasValidExtension THEN InvalidTypeMessage(svc)
        ELSE IF EndsWith(lowerName, ".csv")
             THEN validateCSVContent(svc, f.content.lines)
        ELSE IF EndsWith(lowerName, ".json")
             THEN validateJSONContent(svc, f.content.json)
        ELSE NoError

validateFile(svc, f) ==
    LET hasValidType == f.type \in AllowedTypes
        lowerName == toLowerCase(f.name)
        hasValidExtension == \E ext \in AllowedExtensions : EndsWith(lowerName, ext)
    IN  IF ~hasValidType /\ ~hasValidExtension THEN InvalidTypeMessage(svc)
        ELSE IF f.size > MaxFileSize(svc) THEN FileTooLargeMessage(svc)
        ELSE IF EndsWith(lowerName, ".csv")
             THEN validateCSVContent(svc, f.content.lines)
        ELSE IF EndsWith(lowerName, ".json")
             THEN validateJSONContent(svc, f.content.json)
        ELSE NoError

(***************************************************************************)
(* AIEnhancedFileProcessingService.preValidateFileWithAI                    *)
(***************************************************************************)
\* Issues of one data row of a CSV file: every non-empty value of the third
\* and fourth cell that fails ipPattern, every non-empty value of the fifth
\* cell that fails portPattern.
CsvRowIssues(line) ==
    LET row == Split(line, ",")
        ips == IF Len(row) > 2
               THEN CellValues(row, 3) \o CellValues(row, 4) ELSE <<>>
        ports == IF Len(row) > 4 THEN CellValues(row, 5) ELSE <<>>
    IN  CountWhere(ips, LAMBDA ip : ip # "" /\ ~MatchesIpPattern(ip))
        + CountWhere(ports, LAMBDA port : port # "" /\ ~MatchesPortPattern(port))

TitleMinLength == 10

KnownSeverities == {"low", "medium", "high", "critical"}

TitleIssue(event) ==
    IF "title" \notin DOMAIN event THEN 1
    ELSE IF event.title = "" \/ Len(event.title) < TitleMinLength THEN 1 ELSE 0

AttackerIssue(event) ==
    IF "attacker_ips" \notin DOMAIN event THEN 1
    ELSE IF Len(event.attacker_ips) = 0 THEN 1 ELSE 0

SeverityIssue(event) ==
    IF "severity" \notin DOMAIN event THEN 1
    ELSE IF event.severity = "" \/ event.severity \notin KnownSeverities THEN 1 ELSE 0

\* Mutant: a title is counted only when it is absent, not when it is short.
JsonEventIssues_TitlePresenceOnly(event) ==
    (IF "title" \notin DOMAIN event THEN 1 ELSE 0)
    + AttackerIssue(event) + SeverityIssue(event)

\* Issues of one event of a JSON file.
JsonEventIssues(event) == TitleIssue(event) + AttackerIssue(event) + SeverityIssue(event)

IsCsvName(f) == EndsWith(toLowerCase(f.name), ".csv")

IsJsonName(f) == EndsWith(toLowerCase(f.name), ".json")

\* The try block throws when JSON.parse does.
PreValidationThrows(f) == ~IsCsvName(f) /\ IsJsonName(f) /\ f.content.json.syntaxError

LargeDataset == 100

\* The data rows the CSV loop of the pre-validation splits and inspects.
PreValidationRows(f) ==
    IF IsCsvName(f) THEN Max(0, Len(NonBlankLines(f.content.lines)) - 1) ELSE 0

preValidateFileWithAI(f) ==
    IF PreValidationThrows(f)
    THEN [correctionsCount |-> 0, dataQualityScore |-> 0,
          suggestedImprovements |->
              <<"Unable to analyze file - will process with server-side AI">>,
          confidenceLevel |-> "low"]
    ELSE
    LET lines == NonBlankLines(f.content.lines)
        evts == EventsOf(f.content.json)
        totalRecords ==
            IF IsCsvName(f) THEN Max(0, Len(lines) - 1)
            ELSE IF IsJsonName(f) THEN Len(evts) ELSE 0
        dataIssues ==
            IF IsCsvName(f)
            THEN SumTo([i \in 1..Len(lines) |->
                           IF i = 1 THEN 0 ELSE CsvRowIssues(lines[i])], Len(lines))
            ELSE IF IsJsonName(f)
            THEN SumTo([i \in 1..Len(evts) |-> JsonEventIssues(evts[i])], Len(evts))
            ELSE 0
        records == Max(totalRecords, 1)
        \* qualityScore = scoreTimesRecords / records, a rational number
        scoreTimesRecords == Max(0, 100 * records - 100 * dataIssues)
        suggestions ==
            (IF dataIssues > 0
             THEN <<ToString(dataIssues)
                    \o " data quality issues detected that will be auto-corrected">>
             ELSE <<>>)
            \o (IF totalRecords > LargeDataset
                THEN <<"Large dataset detected - processing may take 2-3 minutes">>
                ELSE <<>>)
            \o (IF 10 * dataIssues > 3 * records
                THEN <<"Consider reviewing source data quality for future uploads">>
                ELSE <<>>)
    IN  [correctionsCount |-> dataIssues,
         \* Math.round: the nearest integer, halves upwards
         dataQualityScore |-> (2 * scoreTimesRecords + records) \div (2 * records),
         suggestedImprovements |-> suggestions,
         confidenceLevel |->
             IF scoreTimesRecords > 80 * records THEN "high"
             ELSE IF scoreTimesRecords > 60 * records THEN "medium"
             ELSE "low"]

(***************************************************************************)
(* The files given to the upload services.                                  *)
(***************************************************************************)
FullHeader == "title,description,attacker_ips,victim_ips,attack_ports,attack_type,severity"
CapitalHeader == "Title,Description,Attacker_IPs,Victim_IPs,Attack_Ports,Attack_Type,Severity"
NoAttackerHeader == "title,description,victim_ips,attack_ports,attack_type,severity"
NoSeverityHeader == "title,description,attacker_ips,victim_ips,attack_ports,attack_type"
SimilarNameHeader == "title,description,attacker_ips_old,victim_ips,attack_type,severity"

GoodRow == "T,D,1.2.3.4,5.6.7.8,80,direct-flood,high"
BadRow == "T2,D2,999.1.1.1; 1.2.3.4,5.6.7.8,0;80,other,low"
ShortRow == "T3,D3,1.2.3"
\* The example row of the README's CSV format.
ReadmeRow ==
    "\"DDoS Attack\",\"Volumetric attack\",\"192.0.2.1,192.0.2.2\",\"203.0.113.1\",\"80,443\",\"direct-flood\",\"high\""

CsvTexts ==
    {<<"">>,
     <<FullHeader>>,
     <<NoAttackerHeader>>,
     <<FullHeader, GoodRow>>,
     <<CapitalHeader, GoodRow>>,
     <<FullHeader, "", GoodRow, "   ", BadRow>>,
     <<FullHeader, ShortRow, ReadmeRow>>,
     <<FullHeader, ReadmeRow>>,
     <<NoAttackerHeader, GoodRow>>,
     <<NoAttackerHeader, BadRow, GoodRow>>,
     <<NoSeverityHeader, GoodRow>>,
     <<SimilarNameHeader, GoodRow>>}

NotJson == [syntaxError |-> TRUE, isArray |-> FALSE, value |-> <<>>]

\* The result of JSON.parse: a single object (value holds it alone) or an
\* array of objects.
JsonObject(obj) == [syntaxError |-> FALSE, isArray |-> FALSE, value |-> <<obj>>]
JsonArray(objs) == [syntaxError |-> FALSE, isArray |-> TRUE, value |-> objs]

EmptyObject == [k \in {} |-> ""]

Field(name, option) == IF option.present THEN name :> option.value ELSE EmptyObject

Absent == [present |-> FALSE, value |-> ""]
Given(v) == [present |-> TRUE, value |-> v]

TitleOptions == {Absent, Given(""), Given("DDoS hit"), Given("DDoS flood")}
AttackerOptions == {[present |-> FALSE, value |-> <<>>], Given(<<>>), Given(<<"1.2.3.4">>)}
SeverityOptions == {Absent, Given(""), Given("high"), Given("HIGH")}
OtherFieldsOptions ==
    {EmptyObject,
     [description |-> "D", victim_ips |-> <<"5.6.7.8">>],
     [description |-> "D", victim_ips |-> <<"5.6.7.8">>, attack_type |-> "direct-flood"]}

JsonEvents ==
    {Field("title", t) @@ Field("attacker_ips", a) @@ Field("severity", s) @@ o :
        t \in TitleOptions, a \in AttackerOptions, s \in SeverityOptions,
        o \in OtherFieldsOptions}

CompleteEvent ==
    [title |-> "DDoS flood", description |-> "D", attacker_ips |-> <<"1.2.3.4">>,
     victim_ips |-> <<"5.6.7.8">>, attack_type |-> "direct-flood", severity |-> "high"]

NoSeverityEvent ==
    [title |-> "DDoS flood", description |-> "D", attacker_ips |-> <<"1.2.3.4">>,
     victim_ips |-> <<"5.6.7.8">>, attack_type |-> "direct-flood"]

ShortTitleNoAttackerEvent ==
    [title |-> "DDoS hit", description |-> "D",
     victim_ips |-> <<"5.6.7.8">>, attack_type |-> "direct-flood", severity |-> "high"]

BatchEvents == {CompleteEvent, NoSeverityEvent, ShortTitleNoAttackerEvent, EmptyObject}

Repeat(x, n) == [i \in 1..n |-> x]

\* Batches longer than the enumerated ones: a few events without severity
\* among complete ones, and a batch above the large-dataset mark.
LongBatches ==
    {Repeat(NoSeverityEvent, 8) \o Repeat(CompleteEvent, 33),
     Repeat(NoSeverityEvent, 17) \o Repeat(CompleteEvent, 26),
     Repeat(ShortTitleNoAttackerEvent, 1) \o Repeat(CompleteEvent, 9),
     Repeat(CompleteEvent, 101)}

JsonValues ==
    {NotJson}
    \cup {JsonObject(e) : e \in JsonEvents}
    \cup {JsonArray(b) : b \in SeqsUpTo(BatchEvents, MaxBatch)}
    \cup {JsonArray(b) : b \in LongBatches}

CsvContent(lines) == [lines |-> lines, json |-> NotJson]
JsonContent(json) == [lines |-> <<"(json text)">>, json |-> json]

FileNames == {"data.csv", "DATA.CSV", "data.json", "notes.txt", "report.pdf"}
FileTypes == {"text/csv", "application/json", "text/plain", "application/pdf"}
FileSizes == {MB, 60 * MB, 101 * MB}

DefaultContent(name) ==
    IF EndsWith(toLowerCase(name), ".json")
    THEN JsonContent(JsonArray(<<CompleteEvent>>))
    ELSE CsvContent(<<FullHeader, GoodRow>>)

Files ==
    {[name |-> n, type |-> t, size |-> z, content |-> DefaultContent(n)] :
        n \in FileNames, t \in FileTypes, z \in FileSizes}
    \cup {[name |-> "data.csv", type |-> "text/csv", size |-> MB,
           content |-> CsvContent(lines)] : lines \in CsvTexts}
    \cup {[name |-> "data.json", type |-> "application/json", size |-> MB,
           content |-> JsonContent(json)] : json \in JsonValues}

Services == {"github", "ai", "local"}

(***************************************************************************)
(* uploadAndProcess (FileProcessingService) and uploadAndProcessWithAI:     *)
(* one action for each stretch of the call between two awaits.  The         *)
(* timestamps of the job are left out.                                      *)
(***************************************************************************)
ProcessingId(svc) ==
    IF svc = "ai" THEN "ai-ddos-1"
    ELSE IF svc = "local" THEN "local-1" ELSE "ddos-1"

FailedJob(svc, f, message) ==
    [id |-> ProcessingId(svc), filename |-> f.name, size |-> f.size,
     status |-> "failed", progress |-> 0, error_message |-> message,
     events_created |-> 0, events_failed |-> IF svc = "local" THEN 1 ELSE 0]

InitUpload ==
    /\ CompileIdle
    /\ MetricsIdle
    /\ PageIdle
    /\ QueueIdle
    /\ ReleaseIdle
    /\ AuthIdle
    /\ CacheIdle
    /\ ValidationIdle
    /\ file \in Files
    /\ service \in Services
    /\ pc = "start"
    /\ uploadJob = Null
    /\ preValidation = Null
    /\ rowsExamined = 0
    /\ githubRequests = <<>>

\* The job record is created; the AI service goes on to its pre-validation,
\* the plain service to validateFile.
StartUpload ==
    /\ pc = "start"
    /\ uploadJob' = [id |-> ProcessingId(service), filename |-> file.name,
                     size |-> file.size, status |-> "pending",
                     progress |-> IF service = "ai" THEN 10
                                  ELSE IF service = "local" THEN 20 ELSE 0]
    /\ pc' = IF service = "ai" THEN "prevalidate" ELSE "validate"
    /\ UNCHANGED <<file, service, preValidation, rowsExamined, githubRequests>>
    /\ UNCHANGED nonUploadVars

\* Mutant: an assessment of low confidence ends the call with a failed job.
PreValidate_BlockOnLow ==
    /\ pc = "prevalidate"
    /\ preValidation' = preValidateFileWithAI(file)
    /\ rowsExamined' = rowsExamined + PreValidationRows(file)
    /\ IF preValidateFileWithAI(file).confidenceLevel = "low"
       THEN /\ uploadJob' = FailedJob(service, file, "AI processing failed")
            /\ pc' = "done"
       ELSE /\ uploadJob' = [uploadJob EXCEPT !.progress = 25, !.status = "processing"]
            /\ pc' = "validate"
    /\ UNCHANGED <<file, service, githubRequests>>
    /\ UNCHANGED nonUploadVars

\* Step 1 of uploadAndProcessWithAI: the advisory pre-validation.
PreValidate ==
    /\ pc = "prevalidate"
    /\ preValidation' = preValidateFileWithAI(file)
    /\ rowsExamined' = rowsExamined + PreValidationRows(file)
    /\ uploadJob' = [uploadJob EXCEPT !.progress = 25, !.status = "processing"]
    /\ pc' = "validate"
    /\ UNCHANGED <<file, service, githubRequests>>
    /\ UNCHANGED nonUploadVars

\* validateFile: a throw ends the call with the failed job.
ValidateFile ==
    /\ pc = "validate"
    /\ LET error == validateFile(service, file)
       IN  IF error # NoError
           THEN /\ uploadJob' = FailedJob(service, file, error)
                /\ pc' = "done"
           ELSE /\ uploadJob' =
                      IF service = "ai" THEN [uploadJob EXCEPT !.progress = 40]
                      ELSE IF service = "local"
                      THEN [uploadJob EXCEPT !.progress = 50, !.status = "processing"]
                      ELSE [uploadJob EXCEPT !.progress = 25, !.status = "processing"]
                /\ pc' = IF service = "local" THEN "simulate" ELSE "upload"
    /\ UNCHANGED <<file, service, preValidation, rowsExamined, githubRequests>>
    /\ UNCHANGED nonUploadVars

\* uploadFileToGitHub: the PUT is accepted or answered with an error status.
UploadFileToGitHub(accepted) ==
    /\ pc = "upload"
    /\ githubRequests' = Append(githubRequests, "PUT contents")
    /\ IF accepted
       THEN /\ uploadJob' = [uploadJob EXCEPT
                                !.progress = IF service = "ai" THEN 60 ELSE 50]
            /\ pc' = "dispatch"
       ELSE /\ uploadJob' = FailedJob(service, file,
                                IF service = "ai"
                                THEN "Failed to upload file for AI processing: 403 Forbidden"
                                ELSE "Failed to upload file to GitHub: Forbidden")
            /\ pc' = "done"
    /\ UNCHANGED <<file, service, preValidation, rowsExamined>>
    /\ UNCHANGED nonUploadVars

\* triggerProcessingWorkflow / triggerAIProcessingWorkflow and the return.
TriggerWorkflow(accepted) ==
    /\ pc = "dispatch"
    /\ githubRequests' = Append(githubRequests, "POST dispatches")
    /\ uploadJob' =
          IF ~accepted
          THEN FailedJob(service, file,
                   IF service = "ai"
                   THEN "Failed to trigger AI processing workflow: 403 Forbidden"
                   ELSE "Failed to trigger processing workflow: Forbidden")
          ELSE IF service = "ai"
          THEN [id |-> uploadJob.id, filename |-> uploadJob.filename,
                size |-> uploadJob.size, status |-> "processing", progress |-> 80,
                ai_processing |->
                    [enabled |-> TRUE,
                     estimated_corrections |-> preValidation.correctionsCount]]
          ELSE [uploadJob EXCEPT !.progress = 100, !.status = "completed"]
    /\ pc' = "done"
    /\ UNCHANGED <<file, service, preValidation, rowsExamined>>
    /\ UNCHANGED nonUploadVars

LocalQualityScores == {85, 99}

\* The number of records simulateAIProcessing counts in the file.
LocalRecordCount(f) ==
    IF IsCsvName(f) THEN Max(0, Len(NonBlankLines(f.content.lines)) - 1)
    ELSE IF IsJsonName(f) THEN Len(EventsOf(f.content.json))
    ELSE 0

\* uploadAndProcessLocally after validateFile: simulateAIProcessing,
\* simulateMISPCreation and the completed job; nothing is sent anywhere.
LocalProcessing(quality) ==
    /\ pc = "simulate"
    /\ LET n == LocalRecordCount(file)
           counted == IsCsvName(file) \/ IsJsonName(file)
           eventsCreated == IF counted THEN Max(1, n - (n \div 10)) ELSE 0
           aiCorrections == IF IsCsvName(file) THEN (3 * n) \div 10
                            ELSE IF IsJsonName(file) THEN n \div 4 ELSE 0
       IN  uploadJob' =
               [id |-> uploadJob.id, filename |-> uploadJob.filename,
                size |-> uploadJob.size, status |-> "completed", progress |-> 100,
                events_created |-> eventsCreated,
                events_failed |-> IF counted THEN n - eventsCreated ELSE 0,
                ai_processing |->
                    [enabled |-> TRUE, corrections_made |-> aiCorrections,
                     data_quality_score |-> quality]]
    /\ pc' = "done"
    /\ UNCHANGED <<file, service, preValidation, rowsExamined, githubRequests>>
    /\ UNCHANGED nonUploadVars

NextUpload ==
    \/ \E quality \in LocalQualityScores : LocalProcessing(quality)
    \/ StartUpload
    \/ PreValidate
    \/ ValidateFile
    \/ \E accepted \in BOOLEAN : UploadFileToGitHub(accepted)
    \/ \E accepted \in BOOLEAN : TriggerWorkflow(accepted)

SpecUpload == InitUpload /\ [][NextUpload]_vars

(***************************************************************************)
(* CachedDataService.getDashboardData                                       *)
(***************************************************************************)
\* getEmptyDashboardData; lastUpdated is the time of the call.
getEmptyDashboardData ==
    [lastUpdated |-> "now",
     totalEvents |-> 0,
     events |-> <<>>,
     stats |-> [totalEvents |-> 0, eventsToday |-> 0, eventsThisWeek |-> 0,
                highThreatEvents |-> 0, publishedEvents |-> 0,
                unpublishedEvents |-> 0, tlpRedFiltered |-> 0],
     metrics |->
         [threatLevelDistribution |->
              <<[level |-> "High", count |-> 0, color |-> "#f44336"],
                [level |-> "Medium", count |-> 0, color |-> "#ff9800"],
                [level |-> "Low", count |-> 0, color |-> "#ffeb3b"],
                [level |-> "Undefined", count |-> 0, color |-> "#9e9e9e"]>>,
          attackTypeDistribution |-> <<>>,
          tlpDistribution |-> <<>>,
          dailyEvents |-> <<>>]]

\* A persisted snapshot with n events, high of them of high threat level and
\* published of them published.
Snapshot(n, high, published) ==
    [lastUpdated |-> "2025-01-01T00:00:00Z",
     totalEvents |-> n,
     events |-> [i \in 1..n |-> [id |-> ToString(i)]],
     stats |-> [totalEvents |-> n, eventsToday |-> 0, eventsThisWeek |-> 0,
                highThreatEvents |-> high, publishedEvents |-> published,
                unpublishedEvents |-> n - published, tlpRedFiltered |-> 0],
     metrics |->
         [threatLevelDistribution |->
              <<[level |-> "High", count |-> high, color |-> "#f44336"],
                [level |-> "Medium", count |-> 0, color |-> "#ff9800"],
                [level |-> "Low", count |-> n - high, color |-> "#ffeb3b"],
                [level |-> "Undefined", count |-> 0, color |-> "#9e9e9e"]>>,
          attackTypeDistribution |-> <<>>,
          tlpDistribution |-> <<>>,
          dailyEvents |-> <<>>]]

Snapshots ==
    {Snapshot(n, high, published) :
        n \in 0..MaxSnapshotEvents, high \in 0..MaxSnapshotEvents,
        published \in 0..MaxSnapshotEvents}

\* What the fetch of /data/dashboard-data.json can bring: the snapshot, a
\* 404, another error status, a rejected fetch, or a 200 whose body is not
\* JSON or is the JSON value null.
ServerAnswers ==
    {[kind |-> "ok", body |-> snap] : snap \in Snapshots}
    \cup {[kind |-> k, body |-> getEmptyDashboardData] :
             k \in {"404", "500", "network_error", "invalid_json", "json_null"}}

Resolved(value) == [settled |-> "resolved", value |-> value]

Rejected(message) == [settled |-> "rejected", value |-> [error |-> message]]

\* Mutant: an error other than a 404 is passed on to the caller.
getDashboardData_Rethrow(answer) ==
    IF answer.kind = "ok" THEN Resolved(answer.body)
    ELSE IF answer.kind = "404" THEN Resolved(getEmptyDashboardData)
    ELSE Rejected("Failed to fetch cached data")

\* How the promise of getDashboardData settles for a server answer.  With a
\* body of null the read of data.lastUpdated throws inside the try block.
getDashboardData(answer) ==
    LET thrown ==
            CASE answer.kind = "500" -> "Failed to fetch cached data: 500"
              [] answer.kind = "network_error" -> "Failed to fetch"
              [] answer.kind = "invalid_json" -> "SyntaxError"
              [] answer.kind = "json_null" -> "TypeError"
              [] OTHER -> NoError
    IN  IF answer.kind = "404" THEN Resolved(getEmptyDashboardData)
        ELSE IF thrown # NoError
        THEN Resolved(getEmptyDashboardData)    \* the catch block
        ELSE Resolved(answer.body)

InitCache ==
    /\ CompileIdle
    /\ MetricsIdle
    /\ UploadIdle
    /\ PageIdle
    /\ QueueIdle
    /\ ReleaseIdle
    /\ AuthIdle
    /\ ValidationIdle
    /\ dashboardLog = <<>>

GetDashboardData(answer) ==
    /\ Len(dashboardLog) < MaxFetches
    /\ dashboardLog' = Append(dashboardLog,
                              [answer |-> answer.kind,
                               result |-> getDashboardData(answer)])
    /\ UNCHANGED nonCacheVars

NextCache == \E answer \in ServerAnswers : GetDashboardData(answer)

SpecCache == InitCache /\ [][NextCache]_vars

(***************************************************************************)
(* validateFile of webapp/src/services/validation.ts (named                 *)
(* validateFileBeforeUpload here, after its comment, since the upload       *)
(* services have a validateFile of their own).                              *)
(***************************************************************************)
MAX_FILE_SIZE == 100 * 1024 * 1024

ACCEPTED_FILE_TYPES ==
    [csv |-> <<"text/csv", "application/csv">>,
     json |-> <<"application/json", "text/json">>]

\* Mutant: the type is checked before the size.
validateFileBeforeUpload_TypeFirst(f) ==
    IF f.type \notin Range(ACCEPTED_FILE_TYPES.csv \o ACCEPTED_FILE_TYPES.json)
    THEN [valid |-> FALSE,
          error |-> "Invalid file type. Only CSV and JSON files are accepted"]
    ELSE IF f.size > MAX_FILE_SIZE
    THEN [valid |-> FALSE,
          error |-> "File is too large. Maximum size is "
                    \o ToString((MAX_FILE_SIZE \div 1024) \div 1024) \o "MB"]
    ELSE [valid |-> TRUE, error |-> Undefined]

validateFileBeforeUpload(f) ==
    IF f.size > MAX_FILE_SIZE
    THEN [valid |-> FALSE,
          error |-> "File is too large. Maximum size is "
                    \o ToString((MAX_FILE_SIZE \div 1024) \div 1024) \o "MB"]
    ELSE LET acceptedTypes == ACCEPTED_FILE_TYPES.csv \o ACCEPTED_FILE_TYPES.json
         IN  IF f.type \notin Range(acceptedTypes)
             THEN [valid |-> FALSE,
                   error |-> "Invalid file type. Only CSV and JSON files are accepted"]
             ELSE [valid |-> TRUE, error |-> Undefined]

CandidateNames == {"data.csv", "data.json", "notes.txt"}

CandidateTypes ==
    {"text/csv", "application/csv", "application/json", "text/json",
     "text/plain", "application/pdf", "TEXT/CSV", ""}

CandidateSizes ==
    {0, 1, MB, MAX_FILE_SIZE - 1, MAX_FILE_SIZE, MAX_FILE_SIZE + 1, 2 * MAX_FILE_SIZE}

InitValidation ==
    /\ CompileIdle
    /\ MetricsIdle
    /\ UploadIdle
    /\ PageIdle
    /\ QueueIdle
    /\ ReleaseIdle
    /\ AuthIdle
    /\ CacheIdle
    /\ candidate \in [name : CandidateNames, type : CandidateTypes,
                       size : CandidateSizes]
    /\ validation = Null

ValidateFileBeforeUpload ==
    /\ validation' = validateFileBeforeUpload(candidate)
    /\ UNCHANGED candidate
    /\ UNCHANGED nonValidationVars

NextValidation == ValidateFileBeforeUpload

SpecValidation == InitValidation /\ [][NextValidation]_vars

(***************************************************************************)
(* UploadPage.handleUpload for one file: the call of the AI-enhanced        *)
(* service (the upload actions above), the recording of the job and the     *)
(* poll loop.                                                               *)
(***************************************************************************)
maxAttempts == 60

PollIntervalMs == 15000

\* The job of LocalFileProcessingService.uploadAndProcessLocally.
LocalJob(f) ==
    [id |-> "local-1", filename |-> f.name, size |-> f.size,
     status |-> "completed", progress |-> 100]

\* How the awaited uploadAndProcessWithAI call ends for handleUpload: the
\* service catches every error of its steps and returns a job, so the
\* promise is never rejected.
ServiceCallOutcome == [threw |-> FALSE, job |-> uploadJob]

StartsWith(str, prefix) ==
    Len(str) >= Len(prefix) /\ SubSeq(str, 1, Len(prefix)) = prefix

\* What getAIProcessingStatus resolves with: null (error status, no matching
\* workflow run, exception) or a job with the mapped status and progress.
StatusAnswers ==
    {Null,
     [status |-> "pending", progress |-> 25],
     [status |-> "processing", progress |-> 75],
     [status |-> "completed", progress |-> 100],
     [status |-> "failed", progress |-> 25]}

PageFiles ==
    {[name |-> "data.csv", type |-> "text/csv", size |-> MB,
      content |-> CsvContent(lines)] :
        lines \in {<<FullHeader, GoodRow>>, <<NoAttackerHeader, GoodRow>>, <<"">>}}
    \cup {[name |-> "data.json", type |-> "application/json", size |-> MB,
           content |-> JsonContent(json)] :
        json \in {NotJson, JsonArray(<<CompleteEvent>>),
                  JsonArray(<<CompleteEvent, EmptyObject>>)}}
    \cup {[name |-> "report.pdf", type |-> "application/pdf", size |-> MB,
           content |-> CsvContent(<<FullHeader, GoodRow>>)]}

InitPage ==
    /\ CompileIdle
    /\ MetricsIdle
    /\ PageIdle
    /\ QueueIdle
    /\ ReleaseIdle
    /\ AuthIdle
    /\ CacheIdle
    /\ ValidationIdle
    /\ file \in PageFiles
    /\ service = "ai"
    /\ pc = "start"
    /\ uploadJob = Null
    /\ preValidation = Null
    /\ rowsExamined = 0
    /\ githubRequests = <<>>

\* After the awaited service call: the inner catch takes the local service
\* when the call threw; the job is appended to uploadJobs and pollStatus()
\* is called, which returns at once for a 'local-' id and otherwise starts
\* the interval timer.
RecordJobAndStartPolling ==
    /\ pc = "done"
    /\ LET job == IF ServiceCallOutcome.threw THEN LocalJob(file)
                  ELSE ServiceCallOutcome.job
       IN  /\ uploadJobs' = Append(uploadJobs, job)
           /\ pc' = IF StartsWith(job.id, "local-") THEN "finished" ELSE "polling"
    /\ attempts' = 0
    /\ elapsedMs' = 0
    /\ UNCHANGED uploadVarsButPc
    /\ UNCHANGED nonPageVars

\* One firing of the interval callback.
PollTick(status) ==
    /\ pc = "polling"
    /\ attempts < MaxPollTicks
    /\ attempts' = attempts + 1
    /\ elapsedMs' = elapsedMs + PollIntervalMs
    /\ IF status # Null
       THEN /\ uploadJobs' =
                  [i \in 1..Len(uploadJobs) |->
                      IF uploadJobs[i].id = uploadJob.id
                      THEN [id |-> uploadJob.id, filename |-> file.name,
                            size |-> file.size, status |-> status.status,
                            progress |-> status.progress]
                      ELSE uploadJobs[i]]
            /\ pc' = IF \/ status.status \in {"completed", "failed"}
                        \/ attempts' >= maxAttempts
                     THEN "finished" ELSE "polling"
       ELSE /\ UNCHANGED uploadJobs
            /\ pc' = "polling"
    /\ UNCHANGED uploadVarsButPc
    /\ UNCHANGED nonPageVars

NextPage ==
    \/ StartUpload
    \/ PreValidate
    \/ ValidateFile
    \/ \E accepted \in BOOLEAN : UploadFileToGitHub(accepted)
    \/ \E accepted \in BOOLEAN : TriggerWorkflow(accepted)
    \/ RecordJobAndStartPolling
    \/ \E status \in StatusAnswers : PollTick(status)

SpecPage == InitPage /\ [][NextPage]_vars

(***************************************************************************)
(* Claims about the upload pipeline.                                        *)
(***************************************************************************)
\* The uploaded file is a CSV file of accepted size with a header line and at
\* least one data row, and its header line does not hold the column name
\* attacker_ips in any letter case.
CsvWithoutAttackerColumn ==
    /\ file # Null
    /\ EndsWith(toLowerCase(file.name), ".csv")
    /\ file.size <= MaxFileSize(service)
    /\ LET nonBlank == NonBlankLines(file.content.lines)
       IN  /\ Len(nonBlank) >= 2
           /\ ~Includes(toLowerCase(nonBlank[1]), "attacker_ips")

RejectedNamingAttackerColumn ==
    /\ uploadJob.status = "failed"
    /\ Includes(uploadJob.error_message, "attacker_ips")

PreValidatedJson ==
    /\ file # Null
    /\ preValidation # Null
    /\ ~EndsWith(toLowerCase(file.name), ".csv")
    /\ EndsWith(toLowerCase(file.name), ".json")
    /\ ~file.content.json.syntaxError

Has(record, field) == field \in DOMAIN record

TitleMissingOrShort(record) ==
    IF Has(record, "title") THEN Len(record.title) < 10 ELSE TRUE

AttackersMissingOrEmpty(record) ==
    IF Has(record, "attacker_ips") THEN record.attacker_ips = <<>> ELSE TRUE

SeverityMissingOrUnknown(record) ==
    IF Has(record, "severity")
    THEN record.severity \notin {"low", "medium", "high", "critical"}
    ELSE TRUE

Contribution(record) ==
    (IF TitleMissingOrShort(record) THEN 1 ELSE 0)
    + (IF AttackersMissingOrEmpty(record) THEN 1 ELSE 0)
    + (IF SeverityMissingOrUnknown(record) THEN 1 ELSE 0)

\* C8: for JSON input correctionsCount is the sum over the records of 1 for a
\* missing or shorter-than-10 title, 1 for a missing or empty attacker list
\* and 1 for a missing or unknown severity; so a single record with an
\* 8-character title, no attacker addresses and a known severity gives 2, and
\* a batch of 5 records of which 4 omit severity gives correctionsCount >= 4
\* and a confidenceLevel of medium or low.
C8_CorrectionsPerRecord ==
    PreValidatedJson =>
        LET records == IF file.content.json.isArray
                       THEN file.content.json.value
                       ELSE <<file.content.json.value[1]>>
            total[n \in 0..Len(records)] ==
                IF n = 0 THEN 0 ELSE total[n - 1] + Contribution(records[n])
            omitSeverity == {i \in 1..Len(records) : ~Has(records[i], "severity")}
        IN  /\ preValidation.correctionsCount = total[Len(records)]
            /\ ( /\ Len(records) = 1
                 /\ Has(records[1], "title")
                 /\ Len(records[1].title) = 8
                 /\ AttackersMissingOrEmpty(records[1])
                 /\ ~SeverityMissingOrUnknown(records[1]) )
               => preValidation.correctionsCount = 2
            /\ (Len(records) = 5 /\ Cardinality(omitSeverity) = 4)
               => /\ preValidation.correctionsCount >= 4
                  /\ preValidation.confidenceLevel \in {"medium", "low"}

\* A batch of five records was assessed: four omit severity and are otherwise
\* sound, one has an 8-character title and no attacker addresses.
C8_Witness ==
    /\ PreValidatedJson
    /\ file.content.json.isArray
    /\ LET records == file.content.json.value
       IN  /\ Len(records) = 5
           /\ Cardinality({i \in 1..5 : ~Has(records[i], "severity")}) = 4
           /\ \E i \in 1..5 :
                 /\ Has(records[i], "title")
                 /\ Len(records[i].title) = 8
                 /\ ~Has(records[i], "attacker_ips")
                 /\ Has(records[i], "severity")
    /\ preValidation.correctionsCount = 6
    /\ preValidation.confidenceLevel = "low"

(***************************************************************************)
(* Further claims about the compiler, checked under SpecCompile.            *)
(***************************************************************************)
FixedWorkflowFields(e) ==
    /\ e.analysis = "2"
    /\ e.distribution = "1"
    /\ e.published = FALSE

\* C11: every event submitted by createDDoSEvent has analysis '2',
\* distribution '1' and published false, whatever the input record holds, and
\* no operation of the service makes a submitted or compiled event published.
C11_FixedWorkflowFields ==
    /\ \A i \in 1..Len(posted) : FixedWorkflowFields(posted[i].body.Event)
    /\ mispEvent # Null => FixedWorkflowFields(mispEvent)

\* Two events of critical severity have been submitted.
C11_Witness ==
    /\ Len(posted) >= 2
    /\ ddosData.severity = "critical"
    /\ response # Null
    /\ response.success

(***************************************************************************)
(* Further claims about the upload pipeline, checked under SpecUpload.      *)
(***************************************************************************)
\* The pre-validation has run on a file it could analyse.
PreValidatedWithoutFailure ==
    /\ file # Null
    /\ preValidation # Null
    /\ ~( /\ ~EndsWith(toLowerCase(file.name), ".csv")
          /\ EndsWith(toLowerCase(file.name), ".json")
          /\ file.content.json.syntaxError )

RecordCount ==
    IF EndsWith(toLowerCase(file.name), ".csv")
    THEN (IF Len(NonBlankLines(file.content.lines)) > 1
          THEN Len(NonBlankLines(file.content.lines)) - 1 ELSE 0)
    ELSE IF EndsWith(toLowerCase(file.name), ".json")
    THEN (IF file.content.json.isArray THEN Len(file.content.json.value) ELSE 1)
    ELSE 0

\* C12: the returned score is max(0, 100 - 100*correctionsCount /
\* max(recordCount, 1)) rounded to an integer within 0..100, and the
\* confidenceLevel is high exactly when the returned score is above 80,
\* medium when it is above 60 and at most 80, and low otherwise.
C12_ConfidenceFromReturnedScore ==
    PreValidatedWithoutFailure =>
        LET count == preValidation.correctionsCount
            n == IF RecordCount > 1 THEN RecordCount ELSE 1
            \* the unrounded score is scaled / n
            scaled == IF 100 * n > 100 * count THEN 100 * n - 100 * count ELSE 0
            score == preValidation.dataQualityScore
        IN  /\ score \in 0..100
            /\ 2 * n * score <= 2 * scaled + n
            /\ 2 * scaled + n < 2 * n * (score + 1)
            /\ preValidation.confidenceLevel =
                  IF score > 80 THEN "high"
                  ELSE IF score > 60 THEN "medium" ELSE "low"

GitHubFailureMessages ==
    {"Failed to upload file for AI processing: 403 Forbidden",
     "Failed to trigger AI processing workflow: 403 Forbidden"}

\* C13: the quality assessment never blocks processing: the step after the
\* assessment is always the structural validation, whatever the assessment
\* returned, and a failed job of the AI-enhanced service is always due to the
\* structural validation, the upload or the workflow dispatch.
C13_AssessmentAdvisory ==
    [][ /\ pc = "prevalidate" =>
             (pc' = "validate" /\ uploadJob'.status = "processing")
        /\ (service = "ai" /\ uploadJob'.status = "failed") =>
             \/ /\ pc = "validate"
                /\ validateFile("ai", file) # NoError
                /\ uploadJob'.error_message = validateFile("ai", file)
             \/ /\ pc \in {"upload", "dispatch"}
                /\ uploadJob'.error_message \in GitHubFailureMessages ]_vars

\* A file assessed with score 0 and low confidence was validated, uploaded
\* and dispatched.
C13_Witness ==
    /\ service = "ai"
    /\ pc = "done"
    /\ preValidation # Null
    /\ preValidation.confidenceLevel = "low"
    /\ preValidation.dataQualityScore = 0
    /\ preValidation.correctionsCount >= 3
    /\ uploadJob.status = "processing"
    /\ uploadJob.progress = 80
    /\ githubRequests = <<"PUT contents", "POST dispatches">>

(***************************************************************************)
(* Claims about the security posture, checked under SpecPosture.            *)
(***************************************************************************)
\* C14: for every metrics value, one with totalEvents = 0 included,
\* calculateSecurityPosture returns a number within [0, 100] equal to
\* 100 - 30*(high/total) - 20*(unpublished/total) - 25*(tlpRed/total),
\* clamped to that range.
C14_PostureWithinRange ==
    posture # Null =>
        /\ ~posture.isNaN
        /\ posture.scoreTimesTotal >= 0
        /\ posture.scoreTimesTotal <= 100 * posture.totalEvents
        /\ posture.totalEvents = metrics.totalEvents =>
              LET red == {i \in 1..Len(metrics.tlpDistribution) :
                             metrics.tlpDistribution[i].level = "RED"}
                  redCount == IF red = {} THEN 0
                              ELSE metrics.tlpDistribution[CHOOSE i \in red : TRUE].count
                  raw == 100 * metrics.totalEvents
                         - 30 * metrics.eventsByThreatLevel.high
                         - 20 * metrics.publishedVsUnpublished.unpublished
                         - 25 * redCount
              IN  posture.scoreTimesTotal =
                      IF raw < 0 THEN 0
                      ELSE IF raw > 100 * metrics.totalEvents
                      THEN 100 * metrics.totalEvents ELSE raw

(***************************************************************************)
(* Claims about UploadPage.handleUpload, checked under SpecPage.            *)
(***************************************************************************)
\* C15: the poll loop of a job whose id does not start with 'local-' makes
\* at most 60 status checks, 15 seconds apart, and then stops for good,
\* whatever the status endpoint answers on each check.
C15_PollingBounded ==
    /\ attempts <= 60
    /\ elapsedMs = attempts * 15000
    /\ (attempts = 60 /\ uploadJobs # <<>>) => pc = "finished"

\* The uploaded file is a JSON batch of at least two records in which exactly
\* one record misses required fields and every other record is complete.
Complete(record) ==
    {"title", "description", "attacker_ips", "victim_ips", "attack_type", "severity"}
        \subseteq DOMAIN record

OneMalformedRecord ==
    /\ file # Null
    /\ EndsWith(toLowerCase(file.name), ".json")
    /\ ~EndsWith(toLowerCase(file.name), ".csv")
    /\ file.size <= 50 * MB
    /\ ~file.content.json.syntaxError
    /\ file.content.json.isArray
    /\ LET records == file.content.json.value
       IN  /\ Len(records) >= 2
           /\ Cardinality({i \in 1..Len(records) : ~Complete(records[i])}) = 1

\* C16: a JSON batch with a single record missing required fields, all other
\* records complete, passes file validation in each upload service, so its
\* upload proceeds and the file is not rejected.
C16_OneMalformedRecordAccepted ==
    (OneMalformedRecord /\ pc = "done") =>
        ~( /\ uploadJob.status = "failed"
           /\ githubRequests = <<>> )

(***************************************************************************)
(* Claims about CachedDataService, checked under SpecCache.                 *)
(***************************************************************************)
AllZero(stats) == \A k \in DOMAIN stats : stats[k] = 0

EmptyStructure(data) ==
    /\ data.totalEvents = 0
    /\ data.events = <<>>
    /\ AllZero(data.stats)
    /\ Len(data.metrics.threatLevelDistribution) = 4
    /\ \A i \in 1..4 : data.metrics.threatLevelDistribution[i].count = 0

\* C17: getDashboardData never rejects, and when the snapshot is absent (404)
\* or the fetch or the JSON parse fails in any other way it resolves with the
\* empty structure: totalEvents 0, every stats counter 0, four threat-level
\* buckets of count 0, no events.
C17_DashboardNeverFails ==
    \A i \in 1..Len(dashboardLog) :
        /\ dashboardLog[i].result.settled = "resolved"
        /\ dashboardLog[i].answer # "ok" =>
              EmptyStructure(dashboardLog[i].result.value)

\* A call answered with an error status other than 404 was followed by one
\* whose body could not be parsed.
C17_Witness ==
    /\ Len(dashboardLog) >= 2
    /\ dashboardLog[1].answer = "500"
    /\ dashboardLog[2].answer = "invalid_json"
    /\ dashboardLog[2].result.settled = "resolved"
    /\ dashboardLog[2].result.value.totalEvents = 0

(***************************************************************************)
(* Claims about batch-level errors, checked under SpecUpload.               *)
(***************************************************************************)
HasCsvName == EndsWith(toLowerCase(file.name), ".csv")

HasJsonName == ~HasCsvName /\ EndsWith(toLowerCase(file.name), ".json")

WrongType ==
    /\ file.type \notin {"text/csv", "application/json", "text/plain"}
    /\ ~EndsWith(toLowerCase(file.name), ".csv")
    /\ ~EndsWith(toLowerCase(file.name), ".json")

Oversize == file.size > (IF service = "github" THEN 50 ELSE 100) * 1024 * 1024

FewerThanTwoCsvLines == HasCsvName /\ Len(NonBlankLines(file.content.lines)) < 2

MissingCsvHeader ==
    /\ HasCsvName
    /\ Len(NonBlankLines(file.content.lines)) >= 2
    /\ \E col \in {"title", "description", "attacker_ips", "victim_ips",
                    "attack_type", "severity"} :
          ~Includes(toLowerCase(NonBlankLines(file.content.lines)[1]), col)

UnparsableOrEmptyJson ==
    /\ HasJsonName
    /\ \/ file.content.json.syntaxError
       \/ file.content.json.isArray /\ file.content.json.value = <<>>

BatchLevelError ==
    /\ file # Null
    /\ service \in {"github", "ai"}
    /\ \/ WrongType
       \/ Oversize
       \/ FewerThanTwoCsvLines
       \/ MissingCsvHeader
       \/ UnparsableOrEmptyJson

\* C18: when file validation fails (wrong type, oversize, missing CSV header,
\* fewer than two CSV lines, unparsable or empty JSON) nothing is uploaded to
\* GitHub and no workflow is dispatched for the file, and the returned job
\* has status failed, progress 0, events_created 0 and an error_message.
C18_BatchErrorsAbort ==
    BatchLevelError =>
        /\ githubRequests = <<>>
        /\ pc \notin {"upload", "dispatch"}
        /\ pc = "done" =>
              /\ uploadJob.status = "failed"
              /\ uploadJob.progress = 0
              /\ uploadJob.events_created = 0
              /\ uploadJob.error_message # ""

\* An oversize file was turned down by the AI-enhanced service.
C18_Witness ==
    /\ BatchLevelError
    /\ Oversize
    /\ ~WrongType
    /\ service = "ai"
    /\ pc = "done"
    /\ uploadJob.status = "failed"
    /\ githubRequests = <<>>

(***************************************************************************)
(* Further claims about UploadPage.handleUpload, checked under SpecPage.    *)
(***************************************************************************)
\* The GitHub Actions AI processing of the file failed: the service gave
\* back a failed job (validation error, upload or dispatch rejected).
GitHubProcessingFailed ==
    /\ pc \in {"polling", "finished"}
    /\ uploadJob # Null
    /\ uploadJob.status = "failed"

\* C19: when GitHub Actions AI processing of a file fails, handleUpload falls
\* back to local processing of the file, so the job recorded for it is the
\* one of uploadAndProcessLocally (id starting with 'local-'), not a failed
\* GitHub job.
C19_FallbackToLocal ==
    GitHubProcessingFailed =>
        /\ Len(uploadJobs) = 1
        /\ SubSeq(uploadJobs[1].id, 1, 6) = "local-"

(***************************************************************************)
(* Claims about validation.ts, checked under SpecValidation.                *)
(***************************************************************************)
\* C20: validateFile(file) returns valid = true exactly when file.size is at
\* most 100 MB and file.type is one of text/csv, application/csv,
\* application/json, text/json; otherwise valid = false with an error, the
\* size check ('too large') taking precedence over the type check
\* ('Invalid file type').
C20_ValidateFileExact ==
    validation # Null =>
        LET sizeOk == candidate.size <= 100 * 1024 * 1024
            typeOk == candidate.type \in {"text/csv", "application/csv",
                                          "application/json", "text/json"}
        IN  /\ validation.valid <=> (sizeOk /\ typeOk)
            /\ ~sizeOk => Includes(validation.error, "too large")
            /\ (sizeOk /\ ~typeOk) => Includes(validation.error, "Invalid file type")

\* A file both too large and of a type that is not accepted was validated.
C20_Witness ==
    /\ validation # Null
    /\ candidate.size > 100 * 1024 * 1024
    /\ candidate.type = "application/pdf"
    /\ ~validation.valid
    /\ Includes(validation.error, "too large")

(***************************************************************************)
(* UploadPage with several files: the queue (files), onDrop, removeFile,    *)
(* the clear button, handleUpload looping over the files it saw when it     *)
(* was called, and one interval timer for each job.  The call of the        *)
(* upload service is one step here: it returns a job that is 'processing'   *)
(* or 'failed' and never throws (uploadAndProcessWithAI above).             *)
(***************************************************************************)
MaxQueueFiles == 2

MaxJobPolls == 2

DropLimit == 50 * MB

QueueFiles ==
    {[name |-> "batch" \o ToString(i) \o ".csv", type |-> "text/csv", size |-> MB] :
        i \in 1..MaxQueueFiles}
    \cup {[name |-> "notes.pdf", type |-> "application/pdf", size |-> MB],
          [name |-> "huge.json", type |-> "application/json", size |-> DropLimit + 1]}

\* The filter of onDrop.
IsValidDrop(f) ==
    /\ \/ f.type = "text/csv"
       \/ f.type = "application/json"
       \/ EndsWith(f.name, ".csv")
       \/ EndsWith(f.name, ".json")
    /\ f.size <= DropLimit

\* onDrop(acceptedFiles): setFiles(prev => [...prev, ...validFiles]).  The
\* drop zone stays enabled while handleUpload runs.
OnDrop(acceptedFiles) ==
    /\ \A i \in 1..Len(acceptedFiles) : acceptedFiles[i] \notin dropped
    /\ LET validFiles == Filter(acceptedFiles, IsValidDrop)
       IN  /\ files' = files \o validFiles
           /\ dropped' = dropped \cup Range(validFiles)
    /\ UNCHANGED <<isUploading, batch, batchPos, pollers, removed>>
    /\ UNCHANGED pageVars
    /\ UNCHANGED nonQueueVars

\* removeFile(index); its button is disabled while isUploading.
RemoveFile(index) ==
    /\ ~isUploading
    /\ index \in 1..Len(files)
    /\ files' = [i \in 1..(Len(files) - 1) |->
                    IF i < index THEN files[i] ELSE files[i + 1]]
    /\ removed' = removed \cup {files[index]}
    /\ UNCHANGED <<isUploading, batch, batchPos, pollers, dropped>>
    /\ UNCHANGED pageVars
    /\ UNCHANGED nonQueueVars

\* The clear button: setFiles([]); disabled while isUploading.
ClearFiles ==
    /\ ~isUploading
    /\ files # <<>>
    /\ files' = <<>>
    /\ removed' = removed \cup Range(files)
    /\ UNCHANGED <<isUploading, batch, batchPos, pollers, dropped>>
    /\ UNCHANGED pageVars
    /\ UNCHANGED nonQueueVars

\* handleUpload up to its first await: the loop iterates the files array of
\* the render in which the button was clicked.
HandleUpload ==
    /\ ~isUploading
    /\ files # <<>>
    /\ isUploading' = TRUE
    /\ batch' = files
    /\ batchPos' = 0
    /\ UNCHANGED <<files, pollers, dropped, removed>>
    /\ UNCHANGED pageVars
    /\ UNCHANGED nonQueueVars

\* generateProcessingId: `ai-ddos-${Date.now()}-${random}`.  The time and the
\* random digits are modelled by a serial number: every call yields a string
\* no earlier call has yielded.
QueueProcessingId(n) == "ai-ddos-" \o ToString(n)

\* The job uploadAndProcessWithAI returns.
ServiceJob(id, f, failed) ==
    [id |-> id, filename |-> f.name, size |-> f.size,
     status |-> IF failed THEN "failed" ELSE "processing",
     progress |-> IF failed THEN 0 ELSE 80]

NewPoller(f) == [file |-> f, attempts |-> 0, running |-> TRUE, awaiting |-> 0]

\* One iteration of the loop of handleUpload, from the answer of the awaited
\* service call on: the job is appended, pollStatus() starts the interval
\* timer of the job (its id does not start with 'local-'), and the next
\* iteration calls the service; after the last file the queue is emptied
\* with setFiles([]) and isUploading is reset.
ProcessFile(failed) ==
    /\ isUploading
    /\ batchPos < Len(batch)
    /\ LET f == batch[batchPos + 1]
           job == ServiceJob(QueueProcessingId(Len(uploadJobs) + 1), f, failed)
       IN  /\ uploadJobs' = Append(uploadJobs, job)
           /\ pollers' = IF StartsWith(job.id, "local-") THEN pollers
                         ELSE (job.id :> NewPoller(f)) @@ pollers
    /\ IF batchPos + 1 = Len(batch)
       THEN /\ files' = <<>>
            /\ isUploading' = FALSE
            /\ batch' = <<>>
            /\ batchPos' = 0
       ELSE /\ batchPos' = batchPos + 1
            /\ UNCHANGED <<files, isUploading, batch>>
    /\ UNCHANGED <<dropped, removed, attempts, elapsedMs>>
    /\ UNCHANGED nonQueueVars

\* The interval callback of job id up to its await: attempts++ and the
\* request of getAIProcessingStatus(job.id).
PollFire(id) ==
    /\ id \in DOMAIN pollers
    /\ pollers[id].running
    /\ pollers[id].attempts < MaxJobPolls
    /\ pollers' = [pollers EXCEPT ![id].attempts = @ + 1, ![id].awaiting = @ + 1]
    /\ UNCHANGED <<files, isUploading, batch, batchPos, dropped, removed>>
    /\ UNCHANGED pageVars
    /\ UNCHANGED nonQueueVars

\* Mutant: the answer is written over every record.
PollAnswer_EveryRecord(id, status) ==
    /\ id \in DOMAIN pollers
    /\ pollers[id].awaiting > 0
    /\ IF status # Null
       THEN /\ uploadJobs' =
                  [i \in 1..Len(uploadJobs) |->
                      [id |-> id, filename |-> pollers[id].file.name,
                       size |-> pollers[id].file.size, status |-> status.status,
                       progress |-> status.progress]]
            /\ pollers' =
                  [pollers EXCEPT
                      ![id].awaiting = @ - 1,
                      ![id].running =
                          @ /\ ~(\/ status.status \in {"completed", "failed"}
                                 \/ pollers[id].attempts >= maxAttempts)]
       ELSE /\ UNCHANGED uploadJobs
            /\ pollers' = [pollers EXCEPT ![id].awaiting = @ - 1]
    /\ UNCHANGED <<files, isUploading, batch, batchPos, dropped, removed>>
    /\ UNCHANGED <<attempts, elapsedMs>>
    /\ UNCHANGED nonQueueVars

\* The rest of the interval callback of job id, from the answer of
\* getAIProcessingStatus on: setUploadJobs(prev => prev.map(j => j.id ===
\* job.id ? enhancedStatus : j)) and clearInterval on a final status.
PollAnswer(id, status) ==
    /\ id \in DOMAIN pollers
    /\ pollers[id].awaiting > 0
    /\ IF status # Null
       THEN /\ uploadJobs' =
                  [i \in 1..Len(uploadJobs) |->
                      IF uploadJobs[i].id = id
                      THEN [id |-> id, filename |-> pollers[id].file.name,
                            size |-> pollers[id].file.size,
                            status |-> status.status,
                            progress |-> status.progress]
                      ELSE uploadJobs[i]]
            /\ pollers' =
                  [pollers EXCEPT
                      ![id].awaiting = @ - 1,
                      ![id].running =
                          @ /\ ~(\/ status.status \in {"completed", "failed"}
                                 \/ pollers[id].attempts >= maxAttempts)]
       ELSE /\ UNCHANGED uploadJobs
            /\ pollers' = [pollers EXCEPT ![id].awaiting = @ - 1]
    /\ UNCHANGED <<files, isUploading, batch, batchPos, dropped, removed>>
    /\ UNCHANGED <<attempts, elapsedMs>>
    /\ UNCHANGED nonQueueVars

QueueJobIds == {QueueProcessingId(n) : n \in 1..MaxQueueFiles}

InitQueue ==
    /\ CompileIdle
    /\ MetricsIdle
    /\ UploadIdle
    /\ PageIdle
    /\ CacheIdle
    /\ ValidationIdle
    /\ QueueIdle
    /\ ReleaseIdle
    /\ AuthIdle

NextQueue ==
    \/ \E f \in QueueFiles : OnDrop(<<f>>)
    \/ \E index \in 1..MaxQueueFiles : RemoveFile(index)
    \/ ClearFiles
    \/ HandleUpload
    \/ \E failed \in BOOLEAN : ProcessFile(failed)
    \/ \E id \in QueueJobIds : PollFire(id)
    \/ \E id \in QueueJobIds, status \in StatusAnswers : PollAnswer(id, status)

SpecQueue == InitQueue /\ [][NextQueue]_vars

(***************************************************************************)
(* MISPApiService.getEvents: the events of the server's index, transformed  *)
(* and filtered by isTlpRedEvent, as EventsPage loads them before it hands  *)
(* them to EventMetricsService.                                             *)
(***************************************************************************)
MaxReleaseEvents == 2

\* transformMISPEvent, for the fields the filter and the metrics read.
transformMISPEvent(event) ==
    [id |-> event.id,
     tags |-> IF "Tag" \in DOMAIN event
              THEN [i \in 1..Len(event.Tag) |->
                       [name |-> event.Tag[i].name,
                        colour |-> IF "colour" \in DOMAIN event.Tag[i]
                                      /\ Truthy(event.Tag[i].colour)
                                   THEN event.Tag[i].colour ELSE "#cccccc"]]
              ELSE <<>>,
     threat_level |-> event.threat_level_id,
     published |-> event.published = "1",
     date |-> event.date]

isTlpRedEvent(event) ==
    SomeTag(event, LAMBDA tag : \/ Includes(toLowerCase(tag.name), "tlp:red")
                                \/ Includes(toLowerCase(tag.name), "tlp-red"))

\* getEvents(limit, excludeTlpRed): ok says whether makeRequest returned the
\* server's answer; when it throws, the catch returns [].
getEvents(answer, ok, excludeTlpRed) ==
    IF ~ok THEN <<>>
    ELSE LET evts == [i \in 1..Len(answer) |-> transformMISPEvent(answer[i].Event)]
         IN  IF excludeTlpRed
             THEN Filter(evts, LAMBDA event : ~isTlpRedEvent(event))
             ELSE evts

\* The tag names of the events on the server.
ReleaseTagLists ==
    {<<>>,
     <<"tlp:red">>,
     <<"TLP:RED">>,
     <<"tlp-red">>,
     <<"tlp:amber">>,
     <<"tlp:green", "Tlp:Red">>,
     <<"workflow:tlp:red-review">>}

\* An event of the server's answer; an event that was never tagged has no
\* Tag member.
ServerEventsWith(names) ==
    {[id |-> "0", Tag |-> [i \in 1..Len(names) |-> [name |-> names[i]]],
      threat_level_id |-> "2", published |-> "1", date |-> 1]}
    \cup (IF names = <<>>
          THEN {[id |-> "0", threat_level_id |-> "2", published |-> "1", date |-> 1]}
          ELSE {})

ServerEventShapes == UNION {ServerEventsWith(names) : names \in ReleaseTagLists}

\* The answer of /events/index: the id of an event is its position.
ServerAnswer(shapes) ==
    [i \in 1..Len(shapes) |->
        [Event |-> [shapes[i] EXCEPT !.id = ToString(i)]]]

InitRelease ==
    /\ CompileIdle
    /\ MetricsIdle
    /\ UploadIdle
    /\ PageIdle
    /\ CacheIdle
    /\ ValidationIdle
    /\ QueueIdle
    /\ AuthIdle
    /\ \E shapes \in SeqsUpTo(ServerEventShapes, MaxReleaseEvents) :
           serverEvents = ServerAnswer(shapes)
    /\ fetched = Null

\* EventsPage: fetchedEvents = await mispApi.getEvents(50, tlpFilterEnabled);
\* the page then holds the returned array.
GetEvents(ok, excludeTlpRed) ==
    /\ fetched' = [excludeTlpRed |-> excludeTlpRed,
                   all |-> getEvents(serverEvents, ok, FALSE),
                   result |-> getEvents(serverEvents, ok, excludeTlpRed)]
    /\ events' = fetched'.result
    /\ UNCHANGED <<filterCall, metrics, posture, serverEvents>>
    /\ UNCHANGED <<compileVars, uploadVars, pageVars, cacheVars, validationVars,
                   queueVars, authVars>>

NextRelease ==
    \/ \E ok, excludeTlpRed \in BOOLEAN : GetEvents(ok, excludeTlpRed)
    \/ \E excludeTlpRed \in BOOLEAN : FilterEventsByTLP(excludeTlpRed)
    \/ CalculateMetrics

SpecRelease == InitRelease /\ [][NextRelease]_vars

(***************************************************************************)
(* The auth store (webapp/src/hooks/useAuth.ts) with AuthService and the    *)
(* token of ApiClient (webapp/src/services/auth.ts).  A call runs without   *)
(* interruption up to its next request to the server; the calls awaiting    *)
(* an answer are in authCalls, and the answers arrive in any order.         *)
(***************************************************************************)
MaxAuthCalls == 3

\* The store as create() builds it.
InitialAuthState ==
    [user |-> None, token |-> None, isAuthenticated |-> FALSE, isLoading |-> TRUE]

\* set({ user: null, token: null, isAuthenticated: false, isLoading: false })
SignedOutState ==
    [user |-> None, token |-> None, isAuthenticated |-> FALSE, isLoading |-> FALSE]

SignedInState(user, token) ==
    [user |-> user, token |-> token, isAuthenticated |-> TRUE, isLoading |-> FALSE]

\* The token the server issues for the n-th call, and the user it names.
IssuedToken(n) == "token-" \o ToString(n)

ServerUser == "analyst"

NewCall(kind, step, token) ==
    [id |-> Cardinality(authCalls) + 1, kind |-> kind, step |-> step,
     token |-> token]

Settle(call) == (authCalls \ {call}) \cup {[call EXCEPT !.step = "done"]}

Proceed(call, step) == (authCalls \ {call}) \cup {[call EXCEPT !.step = step]}

InitAuth ==
    /\ CompileIdle
    /\ MetricsIdle
    /\ UploadIdle
    /\ PageIdle
    /\ CacheIdle
    /\ ValidationIdle
    /\ QueueIdle
    /\ ReleaseIdle
    /\ authStore = InitialAuthState
    /\ apiClientToken = None
    /\ storedToken \in {None, IssuedToken(0)}
    /\ authCalls = {}

\* login(credentials) up to the fetch of POST /auth/login.
Login ==
    /\ Cardinality(authCalls) < MaxAuthCalls
    /\ authStore' = [authStore EXCEPT !.isLoading = TRUE]
    /\ authCalls' = authCalls \cup {NewCall("login", "login", None)}
    /\ UNCHANGED <<apiClientToken, storedToken>>
    /\ UNCHANGED nonAuthVars

\* The answer to POST /auth/login: AuthService.login stores the token in
\* localStorage and in apiClient and the store is set; on an error status or
\* a failed request login throws and the store only resets isLoading.
LoginAnswer(call, ok) ==
    /\ call \in authCalls
    /\ call.step = "login"
    /\ IF ok
       THEN /\ storedToken' = IssuedToken(call.id)
            /\ apiClientToken' = IssuedToken(call.id)
            /\ authStore' = SignedInState(ServerUser, IssuedToken(call.id))
       ELSE /\ authStore' = [authStore EXCEPT !.isLoading = FALSE]
            /\ UNCHANGED <<apiClientToken, storedToken>>
    /\ authCalls' = Settle(call)
    /\ UNCHANGED nonAuthVars

\* localStorage.removeItem('token'); apiClient.setToken(null)
ClearTokens ==
    /\ storedToken' = None
    /\ apiClientToken' = None

\* logout() up to the fetch of POST /auth/logout, or to its end when no token
\* is stored.
Logout ==
    /\ Cardinality(authCalls) < MaxAuthCalls
    /\ IF storedToken # None
       THEN /\ authStore' = [authStore EXCEPT !.isLoading = TRUE]
            /\ authCalls' = authCalls \cup {NewCall("logout", "logout", storedToken)}
            /\ UNCHANGED <<apiClientToken, storedToken>>
       ELSE /\ ClearTokens
            /\ authStore' = SignedOutState
            /\ authCalls' = authCalls \cup {NewCall("logout", "done", None)}
    /\ UNCHANGED nonAuthVars

\* The answer to POST /auth/logout, or its failure, which is only logged: the
\* tokens are cleared and the store is set to signed out.  The call is a
\* logout() or the logout inside the catch of checkAuth().
LogoutAnswer(call) ==
    /\ call \in authCalls
    /\ call.step = "logout"
    /\ ClearTokens
    /\ authStore' = SignedOutState
    /\ authCalls' = Settle(call)
    /\ UNCHANGED nonAuthVars

\* checkAuth() up to the fetch of GET /auth/me, or to its end when no token
\* is stored.
CheckAuth ==
    /\ Cardinality(authCalls) < MaxAuthCalls
    /\ IF storedToken = None
       THEN /\ authStore' = [authStore EXCEPT !.isAuthenticated = FALSE,
                                              !.isLoading = FALSE]
            /\ authCalls' = authCalls \cup {NewCall("checkAuth", "done", None)}
            /\ UNCHANGED <<apiClientToken, storedToken>>
       ELSE /\ apiClientToken' = storedToken
            /\ authCalls' = authCalls \cup {NewCall("checkAuth", "me", storedToken)}
            /\ UNCHANGED <<authStore, storedToken>>
    /\ UNCHANGED nonAuthVars

\* The answer to GET /auth/me: the store is set with the user and the token
\* checkAuth read at its start; on an error the catch awaits
\* authService.logout() and then sets the store to signed out.
MeAnswer(call, ok) ==
    /\ call \in authCalls
    /\ call.step = "me"
    /\ IF ok
       THEN /\ authStore' = SignedInState(ServerUser, call.token)
            /\ authCalls' = Settle(call)
            /\ UNCHANGED <<apiClientToken, storedToken>>
       ELSE IF storedToken # None
       THEN /\ authCalls' = Proceed(call, "logout")
            /\ UNCHANGED <<authStore, apiClientToken, storedToken>>
       ELSE /\ ClearTokens
            /\ authStore' = SignedOutState
            /\ authCalls' = Settle(call)
    /\ UNCHANGED nonAuthVars

NextAuth ==
    \/ Login
    \/ Logout
    \/ CheckAuth
    \/ \E call \in authCalls, ok \in BOOLEAN : LoginAnswer(call, ok)
    \/ \E call \in authCalls : LogoutAnswer(call)
    \/ \E call \in authCalls, ok \in BOOLEAN : MeAnswer(call, ok)

SpecAuth == InitAuth /\ [][NextAuth]_vars

(***************************************************************************)
(* Claims about the upload queue of UploadPage.                             *)
(***************************************************************************)
IdsOf(jobs) == {jobs[i].id : i \in 1..Len(jobs)}

\* The step in which handleUpload has the job of the next file of its loop.
RecordsJob == isUploading /\ (batchPos' = batchPos + 1 \/ ~isUploading')

\* The step in which an answer of getAIProcessingStatus(id) is handled.
AnswersPoll(id) ==
    /\ id \in DOMAIN pollers
    /\ pollers'[id].awaiting = pollers[id].awaiting - 1

\* C21: upload jobs are isolated from each other.  Every file processed by
\* handleUpload adds exactly one record to uploadJobs, for that file and under
\* an id no other record has, and no other step adds or removes a record; a
\* status answer for job J leaves the id of every record as it is and leaves
\* every record whose id is not J's unchanged, however the polls of the jobs
\* interleave.
C21_JobsIsolated ==
    [][/\ RecordsJob =>
            /\ Len(uploadJobs') = Len(uploadJobs) + 1
            /\ SubSeq(uploadJobs', 1, Len(uploadJobs)) = uploadJobs
            /\ uploadJobs'[Len(uploadJobs')].filename = batch[batchPos + 1].name
            /\ uploadJobs'[Len(uploadJobs')].id \notin IdsOf(uploadJobs)
       /\ ~RecordsJob => Len(uploadJobs') = Len(uploadJobs)
       /\ \A id \in DOMAIN pollers :
              AnswersPoll(id) =>
                  \A i \in 1..Len(uploadJobs) :
                      /\ uploadJobs'[i].id = uploadJobs[i].id
                      /\ uploadJobs[i].id # id => uploadJobs'[i] = uploadJobs[i]
      ]_vars

\* C21 witness: two jobs of one handleUpload call, both polled; the first
\* record shows the 'completed' answer of its own poll and the second the
\* 'pending' answer of its own.
C21_Witness ==
    /\ Len(uploadJobs) = 2
    /\ uploadJobs[1].id # uploadJobs[2].id
    /\ uploadJobs[1].filename # uploadJobs[2].filename
    /\ uploadJobs[1].status = "completed"
    /\ uploadJobs[2].status = "pending"
    /\ \A id \in DOMAIN pollers : pollers[id].attempts >= 1

\* C29: no queued file is silently lost.  Every file onDrop has added to the
\* queue is still in the queue, or has a job record in uploadJobs, or was
\* taken out of the queue by the user.
C29_NoQueuedFileLost ==
    \A f \in dropped :
        \/ f \in Range(files)
        \/ f \in removed
        \/ \E i \in 1..Len(uploadJobs) : uploadJobs[i].filename = f.name

(***************************************************************************)
(* Claims about the release filter and the sensitivity distribution.        *)
(***************************************************************************)
RECURSIVE SumOfCounts(_)
SumOfCounts(distribution) ==
    IF distribution = <<>> THEN 0
    ELSE Head(distribution).count + SumOfCounts(Tail(distribution))

\* C22: calculateTlpDistribution puts every event in exactly one bucket, so
\* the counts of the buckets of tlpDistribution sum to the number of events.
C22_OneBucketPerEvent ==
    metrics # Null =>
        SumOfCounts(metrics.tlpDistribution) = metrics.totalEvents

\* C25: the two implementations of the release filter agree.  When getEvents
\* was called with excludeTlpRed and filterEventsByTLP was called with
\* excludeTlpRed on the same events, unfiltered, both return the same events.
C25_ReleaseFiltersAgree ==
    (/\ fetched # Null
     /\ fetched.excludeTlpRed
     /\ filterCall # Null
     /\ filterCall.excludeTlpRed
     /\ filterCall.events = fetched.all) =>
        filterCall.result = fetched.result

\* C26: the filter and the metrics classify maximal sensitivity alike.  For
\* an array of one event given to both filterEventsByTLP and
\* calculateMetrics, the event is dropped by the filter exactly when the
\* 'RED' bucket of tlpDistribution, the one calculateSecurityPosture reads,
\* counts it.
C26_FilterMatchesRedBucket ==
    (/\ filterCall # Null
     /\ filterCall.excludeTlpRed
     /\ metrics # Null
     /\ Len(events) = 1
     /\ filterCall.events = events
     /\ metrics.recentEvents = events) =>
        (filterCall.result = <<>> <=> TlpRedCount(metrics) > 0)

(***************************************************************************)
(* Claims about the attack-type distribution.                               *)
(***************************************************************************)
\* The name holds the technique id T1498 itself, not followed by a
\* sub-technique suffix.
NamesBareTechnique(name) ==
    \E at \in 1..(Len(name) - 4) :
        /\ SubSeq(name, at, at + 4) = "T1498"
        /\ (at + 5 > Len(name) \/ SubSeq(name, at + 5, at + 5) # ".")

\* The value of an explicit type marker: what follows 'ddos:type=', without
\* its double quotes.
MarkerValue(name) ==
    LET at == CHOOSE i \in 1..Len(name) :
                  /\ SubSeq(name, i, i + 9) = "ddos:type="
                  /\ \A j \in 1..(i - 1) : SubSeq(name, j, j + 9) # "ddos:type="
    IN  RemoveQuotes(SubSeq(name, at + 10, Len(name)))

\* The bucket a tag counts toward; None when it counts toward no bucket.
BucketOfTag(name) ==
    IF Includes(name, "ddos:type=") THEN MarkerValue(name)
    ELSE IF ~Includes(name, "mitre-attack-pattern") THEN None
    ELSE IF Includes(name, "T1498.001") THEN "Direct Flood"
    ELSE IF Includes(name, "T1498.002") THEN "Amplification"
    ELSE IF NamesBareTechnique(name) THEN "Network DoS"
    ELSE None

TagNamesOf(evts) ==
    UNION {{<<i, k>> : k \in 1..Len(evts[i].tags)} : i \in 1..Len(evts)}

CsvCells(line) ==
    LET \* the text outside quotes (odd positions) and between quotes (even)
        pieces == Split(line, "\"")
        read[n \in 0..Len(pieces)] ==
            IF n = 0 THEN [cells |-> <<>>, cell |-> ""]
            ELSE LET before == read[n - 1]
                     parts == Split(pieces[n], ",")
                 IN  IF n % 2 = 0
                     THEN [before EXCEPT !.cell = @ \o pieces[n]]
                     ELSE IF Len(parts) = 1
                     THEN [before EXCEPT !.cell = @ \o parts[1]]
                     ELSE [cells |-> before.cells
                                     \o <<before.cell \o parts[1]>>
                                     \o SubSeq(parts, 2, Len(parts) - 1),
                           cell |-> parts[Len(parts)]]
    IN  Append(read[Len(pieces)].cells, read[Len(pieces)].cell)

\* The values a cell lists, separated by commas or semicolons.
ListedValues(cells, index) ==
    IF index > Len(cells) THEN <<>>
    ELSE LET parts == Split(cells[index], ",")
             values[n \in 0..Len(parts)] ==
                 IF n = 0 THEN <<>>
                 ELSE values[n - 1]
                      \o [k \in 1..Len(Split(parts[n], ";")) |->
                             Trim(Split(parts[n], ";")[k])]
         IN  Filter(values[Len(parts)], LAMBDA v : v # "")

\* The address and port values of a row that are not valid.
InvalidValues(line) ==
    LET cells == CsvCells(line)
        addresses == ListedValues(cells, 3) \o ListedValues(cells, 4)
        ports == ListedValues(cells, 5)
    IN  CountWhere(addresses, LAMBDA ip : ~MatchesIpPattern(ip))
        + CountWhere(ports, LAMBDA port : ~MatchesPortPattern(port))

\* C24: for a CSV file with the documented header, the correctionsCount of
\* preValidateFileWithAI is the number of attacker and victim address values
\* that are no dotted-quad IPv4 address plus the number of port values that
\* are no integer in 1..65535; a row in the documented format whose values are
\* all valid adds 0.
C24_CsvCorrectionsCount ==
    (/\ preValidation # Null
     /\ IsCsvName(file)
     /\ NonBlankLines(file.content.lines) # <<>>
     /\ Head(NonBlankLines(file.content.lines)) = FullHeader) =>
        LET lines == NonBlankLines(file.content.lines)
        IN  preValidation.correctionsCount =
                SumTo([i \in 1..Len(lines) |->
                          IF i = 1 THEN 0 ELSE InvalidValues(lines[i])], Len(lines))

(***************************************************************************)
(* Claims about the sensitivity of compiled events, checked under SpecTags. *)
(***************************************************************************)
\* The compiled event as the server lists it and transformMISPEvent reads it.
CompiledAsListed ==
    transformMISPEvent(
        [id |-> "1", threat_level_id |-> "4", published |-> "0", date |-> 1,
         Tag |-> [i \in 1..Len(mispEvent.Tag) |-> [name |-> mispEvent.Tag[i]]]])

\* C27: no freshly compiled event is maximally sensitive.  Whatever the
\* severity and the attack type of the record, no tag of the compiled event
\* holds 'tlp:red' or 'tlp-red' in any letter case; the event is not excluded
\* by isTlpRedEvent, is kept by filterEventsByTLP and is not counted in the
\* 'RED' bucket of the metrics.
C27_CompiledNeverRed ==
    Compiled =>
        /\ \A i \in 1..Len(mispEvent.Tag) :
              /\ ~HoldsMarker(mispEvent.Tag[i], "tlp:red")
              /\ ~HoldsMarker(mispEvent.Tag[i], "tlp-red")
        /\ ~isTlpRedEvent(CompiledAsListed)
        /\ filterEventsByTLP(<<CompiledAsListed>>, TRUE) = <<CompiledAsListed>>
        /\ TlpRedCount(EventMetrics(<<CompiledAsListed>>)) = 0

\* C27 witness: an amplification record of critical severity has been
\* compiled and accepted by the server.
C27_Witness ==
    /\ Compiled
    /\ ddosData.severity = "critical"
    /\ ddosData.attack_type = "amplification"
    /\ response # Null
    /\ response.success
    /\ Len(mispEvent.Tag) = 3

(***************************************************************************)
(* Claims about the input of calculateMetrics, checked under SpecMetrics.   *)
(***************************************************************************)
\* C28: calculateMetrics does not modify its input.  No call of the service
\* changes the caller's events array: after the call it holds the same events
\* in the same order as before.
C28_InputUnmodified == [][events' = events]_vars

(***************************************************************************)
(* Claims about the auth store, checked under SpecAuth.                     *)
(***************************************************************************)
\* A logout() call, or the logout of a failed checkAuth(), ends in this step.
LogoutCompletes ==
    \E call \in authCalls :
        /\ call.step = "logout"
        /\ [call EXCEPT !.step = "done"] \in authCalls'

\* C30: whenever isAuthenticated is true the store holds a user and a token,
\* and that token is the token of apiClient and the token in localStorage,
\* after any login, logout and checkAuth calls whose answers arrive in any
\* order; and when a logout completes, no token remains in the store, in
\* apiClient or in localStorage.
C30_AuthStateConsistent ==
    /\ [](authStore.isAuthenticated =>
              /\ authStore.user # None
              /\ authStore.token # None
              /\ authStore.token = apiClientToken
              /\ authStore.token = storedToken)
    /\ [][LogoutCompletes =>
              /\ authStore'.token = None
              /\ apiClientToken' = None
              /\ storedToken' = None]_vars

====
